---- MODULE Spec2Model ----
(***************************************************************************)
(* A state-machine model of upnpfuzz: the eventing (ESP) fuzz loop with    *)
(* its subscription table, the SOAP strategy functions and their wire      *)
(* bytes, the network transport with its counters, and main() with its     *)
(* exit codes.                                                             *)
(*                                                                         *)
(* Byte strings are sequences of chunks.  A chunk is a TLA+ string; CR and *)
(* LF are always chunks of their own, so that searching a byte string for  *)
(* a line end is a search for chunks.  The byte length of a byte string is *)
(* the sum of the lengths of its chunks.                                   *)
(***************************************************************************)
EXTENDS Integers, Sequences, FiniteSets, TLC

VARIABLES
    mode,             \* which specification's machine is running
    pc,               \* position of the single sequential task
    \* ---- eventing generator (generators/esp.py) and ESP.run locals
    events,           \* ESPGenerator.events
    sids,             \* ESPGenerator.sids
    event,            \* ESPGenerator.event (current_event)
    rq,               \* the request object returned by get_request()
    drawn,            \* local sid after random.choice(all_sids) (<<>> is None)
    fuzzer,           \* the strategy function handed to run()
    binary,           \* Radamsa.binary ("" when the tool is disabled)
    current_strategy, \* tag returned by the strategy function
    request,          \* wire bytes returned by the strategy function
    response,         \* bytes returned by network.send
    alive_url,        \* Monitor.alive_url ("" when not configured)
    crashes,          \* Monitor.crashes
    issued,           \* history: SID -> event URL of the request that produced it
    \* ---- network transport (network.py)
    total_requests, timeouts, errors,
    calls,            \* history: number of send calls issued
    net,              \* the send call in progress
    \* ---- SOAP strategy functions (protocols/soap.py)
    action,           \* the Action drawn by get_request()
    branch,           \* which part the strategy mutated
    actions,          \* SOAPGenerator.actions, the action catalog
    \* ---- main() (main.py)
    args,             \* parsed command line
    exit_code,        \* process exit code (-1 while running)
    crash_dir_exists, \* whether create_crash_dir() has made the crash directory
    fuzz_sent,        \* number of fuzz requests handed to the transport
    grammar,          \* how generate_grammar() ended ("none" before the call)
    files,            \* the crash directory: file name -> contents
    saves,            \* history: the crash files written, in order
    clock,            \* the wall clock, as an index into Timestamps
    target_up,        \* whether the target answers a request to the alive URL
    \* ---- a single call of a mutator, of a value generator or of discover()
    call              \* the arguments, the locals and the result of the call

vars == <<mode, pc, events, sids, event, rq, drawn, fuzzer, binary,
          current_strategy, request, response, alive_url, crashes, issued,
          total_requests, timeouts, errors, calls, net,
          action, branch, actions, args, exit_code, crash_dir_exists, fuzz_sent, grammar,
          files, saves, clock, target_up, call>>

espVars  == <<events, sids, event, rq, drawn, fuzzer, binary, current_strategy,
              request, response, alive_url, crashes, issued>>
netVars  == <<total_requests, timeouts, errors, calls, net>>
soapVars == <<action, branch, actions>>
mainVars == <<args, exit_code, crash_dir_exists, fuzz_sent, grammar, files, saves, clock,
              target_up, call>>

(***************************************************************************)
(* Bounds.                                                                 *)
(***************************************************************************)
MaxRequests == 3      \* iterations of a fuzz loop that are explored
MaxDelims == 1        \* delimiters drawn by _add_delimiters (both passes)
MaxCalls == 4
MaxResponses == 3     \* multicast responses received by one discovery         \* transport calls explored in the transport machine

(***************************************************************************)
(* Byte strings.                                                           *)
(***************************************************************************)
CR == "\r"
LF == "\n"
CRLF == <<CR, LF>>

RECURSIVE ByteLen(_)
\* len(b): the number of bytes of a byte string
ByteLen(b) == IF b = <<>> THEN 0 ELSE Len(Head(b)) + ByteLen(Tail(b))

RECURSIVE Join(_)
\* b"".join(params): the slots of a list, concatenated
Join(params) == IF params = <<>> THEN <<>> ELSE Head(params) \o Join(Tail(params))

Digit(d) == CASE d = 0 -> "0" [] d = 1 -> "1" [] d = 2 -> "2" [] d = 3 -> "3"
              [] d = 4 -> "4" [] d = 5 -> "5" [] d = 6 -> "6" [] d = 7 -> "7"
              [] d = 8 -> "8" [] d = 9 -> "9"

RECURSIVE Str(_)
\* str(n).encode("utf-8") for n >= 0: the decimal digits, one chunk each
Str(n) == IF n < 10 THEN <<Digit(n)>> ELSE Str(n \div 10) \o <<Digit(n % 10)>>

DigitValue(c) == CASE c = "0" -> 0 [] c = "1" -> 1 [] c = "2" -> 2 [] c = "3" -> 3
                   [] c = "4" -> 4 [] c = "5" -> 5 [] c = "6" -> 6 [] c = "7" -> 7
                   [] c = "8" -> 8 [] c = "9" -> 9 [] OTHER -> -1

RECURSIVE ParseInt(_)
\* the integer a sequence of decimal digits denotes; -1 when it is no number
ParseInt(b) ==
    IF b = <<>> THEN -1
    ELSE LET d == DigitValue(b[Len(b)])
         IN  IF d < 0 THEN -1
             ELSE IF Len(b) = 1 THEN d
             ELSE LET r == ParseInt(SubSeq(b, 1, Len(b) - 1))
                  IN  IF r < 0 THEN -1 ELSE 10 * r + d

\* whether the chunks of pat occur in b starting at position i
OccursAt(b, pat, i) ==
    /\ i >= 1
    /\ i + Len(pat) - 1 <= Len(b)
    /\ SubSeq(b, i, i + Len(pat) - 1) = pat

\* whether byte string b contains pat
Contains(b, pat) == \E i \in 1..Len(b) : OccursAt(b, pat, i)

Min(S) == CHOOSE x \in S : \A y \in S : x <= y


(***************************************************************************)
(* Mutators (fuzzers/injection.py, fuzzers/radamsa.py, fuzzers/overflow).  *)
(***************************************************************************)
\* Injection.cmd
Injection_cmd == <<"reboot">>

\* the backquote byte 0x60, which a TLA+ string cannot hold: one byte, and a
\* character that occurs nowhere else in the program's tables
BACKQUOTE == "~"

\* the enclosures table of _add_enclosures: pairs (left, right)
enclosures ==
    { << <<>>, <<>> >>, << <<BACKQUOTE>>, <<BACKQUOTE>> >>, << <<"$(">>, <<")">> >>,
      << <<";">>, <<";">> >>, << <<"|">>, <<>> >> }

\* the delimiters table of _add_delimiters
delimiters ==
    { <<>>, <<BACKQUOTE>>, <<";">>, <<"\"">>, <<"'">>, <<"|">>, <<"&">>, <<"&&">>,
      <<")">>, <<CR>>, <<LF>>, <<"%0a">>, <<"%0d">> }

\* upper end of random.randint(0, 3) in each pass of _add_delimiters
DelimPassMax == 3

\* left + cmd + right for the drawn enclosure
add_enclosures(cmd, enc) == enc[1] \o cmd \o enc[2]

\* cmd followed by the delimiters drawn in the two passes, in order
add_delimiters(cmd, ds) == cmd \o Join(ds)

\* _get_injection: enclosures first, then delimiters
get_injection(cmd, enc, ds) == add_delimiters(add_enclosures(cmd, enc), ds)

\* the delimiter draws of the two passes (n1 + n2 delimiters), bounded
DelimiterDraws ==
    UNION { [1..(p[1] + p[2]) -> delimiters] :
            p \in { q \in (0..DelimPassMax) \X (0..DelimPassMax) :
                    q[1] + q[2] <= MaxDelims } }

\* every payload _get_injection can return within the bound
Injections ==
    { get_injection(Injection_cmd, enc, ds) : enc \in enclosures, ds \in DelimiterDraws }

\* the payloads drawn for SOAP slot lists: every enclosure, and no delimiter
\* or one delimiter drawn over the two passes
SOAPInjections ==
    { get_injection(Injection_cmd, enc, ds) :
        enc \in enclosures, ds \in {<<>>} \cup { <<d>> : d \in delimiters } }

\* the payloads drawn inside the fuzz loops: no delimiter drawn in either pass
LoopInjections ==
    { get_injection(Injection_cmd, enc, <<>>) : enc \in enclosures }

\* Injection.fuzz with the payload put in front of the slot's bytes
Injection_fuzz_in_front(req, idx, injection) ==
    [req EXCEPT ![idx] = injection \o req[idx]]

\* Injection.fuzz with idx = random.randint(0, len(request) - 1) (1-based here)
Injection_fuzz(req, idx, injection) ==
    [req EXCEPT ![idx] = req[idx] \o injection]

\* "A" * n as one chunk
RECURSIVE Pattern(_)
Pattern(n) == IF n = 0 THEN "" ELSE "A" \o Pattern(n - 1)

\* lengths at and around a buffer boundary
OverflowLengths == {16, 17}
\* the length drawn inside the fuzz loops
LoopOverflowLengths == {16}

\* Overflow.fuzz: one slot replaced or extended by a long pattern
Overflow_fuzz(req, idx, n, replace) ==
    [req EXCEPT ![idx] = IF replace THEN <<Pattern(n)>> ELSE req[idx] \o <<Pattern(n)>>]

\* what the radamsa child may write to stdout for an input
RadamsaOutputs(b) ==
    {b, <<>>, b \o <<"\\x00">>} \cup (IF b = <<>> THEN {} ELSE {Tail(b)})

\* Radamsa.__init__: the binary name the wrapper keeps; `found` is whether
\* shutil.which located it
Radamsa_init(radamsa_path, found) ==
    LET named == IF radamsa_path # "" THEN radamsa_path ELSE "radamsa"
    IN  IF found THEN named ELSE ""

\* the child processes one call of Radamsa.fuzz starts through run_command
Radamsa_spawns(bin) == IF bin = "" THEN 0 ELSE 1

\* a wrapper that hands the request to the child whatever the binary is
Radamsa_fuzz_always_runs(bin, req, out) == out

\* Radamsa.fuzz: identity when the binary was not found at construction
Radamsa_fuzz(bin, req, out) == IF bin = "" THEN req ELSE out

(***************************************************************************)
(* Eventing requests (generators/esp.py).                                  *)
(***************************************************************************)
Host == <<"192.168.1.1">>
Port == <<"5000">>
Callback == <<"http://192.168.2.159:8000/callback">>
PlaceholderSid == <<"uuid:1234-5678-90ab-cdef">>

\* event URLs the device description may advertise
EventUrls == <<"/evt/a", "/evt/b">>
\* values of ESPGenerator.events that bootstrap may leave
EventLists1 == << <<EventUrls[1]>> >>
EventLists2 == << <<EventUrls[1]>>, <<EventUrls[2]>> >>
\* SID values the device may put in a SID header (b"" included)
SidValues == { <<>>, <<"uuid:1">> }

NewSubscribe_get_headers_params(r) ==
    <<r.event, Host, Port, Callback, <<"upnp:event">>, <<"Second-7200">>>>

NewSubscribe_finalize_headers(hp) ==
    <<"SUBSCRIBE ">> \o hp[1] \o <<" HTTP/1.1">> \o CRLF \o
    <<"HOST: ">> \o hp[2] \o <<":">> \o hp[3] \o CRLF \o
    <<"CALLBACK: ", "<">> \o hp[4] \o <<">">> \o CRLF \o
    <<"NT: ">> \o hp[5] \o CRLF \o
    <<"TIMEOUT: ">> \o hp[6] \o CRLF \o
    CRLF

RenewalSubscribe_get_headers_params(r) ==
    <<r.event, Host, Port, r.sid, <<"Second-3600">>>>

RenewalSubscribe_finalize_headers(hp) ==
    <<"SUBSCRIBE ">> \o hp[1] \o <<" HTTP/1.1">> \o CRLF \o
    <<"HOST: ">> \o hp[2] \o <<":">> \o hp[3] \o CRLF \o
    <<"SID: ">> \o hp[4] \o CRLF \o
    <<"TIMEOUT: ">> \o hp[5] \o CRLF \o
    CRLF

Unsubscribe_get_headers_params(r) ==
    <<r.event, Host, Port, r.sid>>

Unsubscribe_finalize_headers(hp) ==
    <<"UNSUBSCRIBE ">> \o hp[1] \o <<" HTTP/1.1">> \o CRLF \o
    <<"HOST: ">> \o hp[2] \o <<":">> \o hp[3] \o CRLF \o
    <<"SID: ">> \o hp[4] \o CRLF \o
    CRLF

\* req.get_headers_params() dispatched on the class of the request object
get_headers_params(r) ==
    CASE r.kind = "NewSubscribe" -> NewSubscribe_get_headers_params(r)
      [] r.kind = "RenewalSubscribe" -> RenewalSubscribe_get_headers_params(r)
      [] r.kind = "Unsubscribe" -> Unsubscribe_get_headers_params(r)

\* req.finalize_headers(params) dispatched on the class of the request object
finalize_headers(r, hp) ==
    CASE r.kind = "NewSubscribe" -> NewSubscribe_finalize_headers(hp)
      [] r.kind = "RenewalSubscribe" -> RenewalSubscribe_finalize_headers(hp)
      [] r.kind = "Unsubscribe" -> Unsubscribe_finalize_headers(hp)

(***************************************************************************)
(* The eventing generator (generators/esp.py).  A generator state g is a   *)
(* record [events, sids, event]; each get_*_request returns the request    *)
(* object together with the generator state it leaves.                     *)
(***************************************************************************)
NoSids == [k \in {} |-> <<>>]

\* if sid: -- None and b"" are both falsy
Truthy(opt) == opt # <<>> /\ opt[1] # <<>>

\* del d[key]
DictDel(d, key) == [k \in (DOMAIN d) \ {key} |-> d[k]]

\* d[key] = value
DictSet(d, key, value) ==
    [k \in (DOMAIN d) \cup {key} |-> IF k = key THEN value ELSE d[k]]

\* random.choice(all_sids) if all_sids else None
SidChoices(d) == IF DOMAIN d = {} THEN { <<>> } ELSE { <<s>> : s \in DOMAIN d }

get_new_subscribe_request(g, ev) ==
    [rq    |-> [kind |-> "NewSubscribe", event |-> ev, sid |-> <<>>],
     sids  |-> g.sids,
     event |-> ev,
     drawn |-> <<>>]

get_renewal_subscribe_request(g, sid, ev) ==
    IF Truthy(sid)
    THEN [rq    |-> [kind |-> "RenewalSubscribe", event |-> g.sids[sid[1]], sid |-> sid[1]],
          sids  |-> g.sids, event |-> g.event, drawn |-> sid]
    ELSE [rq    |-> [kind |-> "RenewalSubscribe", event |-> ev, sid |-> PlaceholderSid],
          sids  |-> g.sids, event |-> g.event, drawn |-> sid]

get_unsubscribe_request(g, sid, ev) ==
    IF Truthy(sid)
    THEN [rq    |-> [kind |-> "Unsubscribe", event |-> g.sids[sid[1]], sid |-> sid[1]],
          sids  |-> DictDel(g.sids, sid[1]), event |-> g.event, drawn |-> sid]
    ELSE [rq    |-> [kind |-> "Unsubscribe", event |-> ev, sid |-> PlaceholderSid],
          sids  |-> g.sids, event |-> g.event, drawn |-> sid]

\* ESPGenerator.get_request: one of the three variants, chosen at random
get_request(g) ==
    LET evs == { g.events[i] : i \in 1..Len(g.events) }
    IN  { get_new_subscribe_request(g, ev) : ev \in evs }
          \cup { get_renewal_subscribe_request(g, s, ev) : s \in SidChoices(g.sids), ev \in evs }
          \cup { get_unsubscribe_request(g, s, ev) : s \in SidChoices(g.sids), ev \in evs }

\* re.search(b"SID: (.*?)\r\n", response): <<>> when there is no match, else
\* <<group(1)>> of the leftmost match, the group ending at the first CRLF
\* after it ("." does not match LF)
GroupEnds(b, i) ==
    { j \in (i + 1)..(Len(b) - 1) :
        /\ b[j] = CR
        /\ b[j + 1] = LF
        /\ \A k \in (i + 1)..(j - 1) : b[k] # LF }

re_search_SID(b) ==
    LET starts == { i \in 1..Len(b) : b[i] = "SID: " /\ GroupEnds(b, i) # {} }
    IN  IF starts = {} THEN <<>>
        ELSE LET i == Min(starts)
                 j == Min(GroupEnds(b, i))
             IN  << SubSeq(b, i + 1, j - 1) >>

\* handle_sid with the assignment to self.sids left out
handle_sid_dropped(table, cur_event, resp) == table

\* ESPGenerator.handle_sid: the table after the response has been scanned
handle_sid(table, cur_event, resp) ==
    LET res == re_search_SID(resp)
    IN  IF res # <<>> THEN DictSet(table, res[1], cur_event) ELSE table


(***************************************************************************)
(* The network transport (network.py).  The outcome of one call is the     *)
(* first socket operation that fails (stage), how it fails (exc), and the  *)
(* data received when none fails.  Each send_* takes the counters and the  *)
(* outcome and returns the counters it leaves, the value it returns and    *)
(* whether an exception leaves the call.                                   *)
(***************************************************************************)
Stats(t, to, er) == [total_requests |-> t, timeouts |-> to, errors |-> er]

\* outcomes of the socket operations of a send call receiving `data`
Outcomes(datas) ==
    { [stage |-> "none", exc |-> "none", data |-> d] : d \in datas }
      \cup { [stage |-> "socket", exc |-> "error", data |-> <<>>] }
      \cup { [stage |-> st, exc |-> e, data |-> <<>>] :
               st \in {"connect", "send", "recv"}, e \in {"timeout", "error"} }

\* UDP has no connect
UdpOutcomes(datas) == { o \in Outcomes(datas) : o.stage # "connect" }

\* a send_tcp that books a timeout as a timeout and as an error
send_tcp_booking_twice(st, o) ==
    LET counted == [st EXCEPT !.total_requests = @ + 1]
    IN  IF o.stage = "none"
        THEN [stats |-> counted, ret |-> o.data, raised |-> FALSE]
        ELSE IF o.exc = "timeout"
        THEN [stats |-> [counted EXCEPT !.timeouts = @ + 1, !.errors = @ + 1],
              ret |-> <<>>, raised |-> FALSE]
        ELSE [stats |-> [counted EXCEPT !.errors = @ + 1], ret |-> <<>>, raised |-> FALSE]

send_tcp(st, o) ==
    LET counted == [st EXCEPT !.total_requests = @ + 1]
    IN  IF o.stage = "none"
        THEN [stats |-> counted, ret |-> o.data, raised |-> FALSE]
        ELSE IF o.exc = "timeout"
        THEN [stats |-> [counted EXCEPT !.timeouts = @ + 1], ret |-> <<>>, raised |-> FALSE]
        ELSE [stats |-> [counted EXCEPT !.errors = @ + 1], ret |-> <<>>, raised |-> FALSE]

send_udp(st, o) ==
    LET counted == [st EXCEPT !.total_requests = @ + 1]
    IN  CASE o.stage = "socket" ->
               \* socket.socket() is called outside the try
               [stats |-> counted, ret |-> <<>>, raised |-> TRUE]
          [] o.stage = "send" ->
               \* except OSError: return b""
               [stats |-> counted, ret |-> <<>>, raised |-> FALSE]
          [] o.stage = "recv" /\ o.exc = "timeout" ->
               [stats |-> [counted EXCEPT !.timeouts = @ + 1], ret |-> <<>>, raised |-> FALSE]
          [] o.stage = "recv" /\ o.exc = "error" ->
               [stats |-> [counted EXCEPT !.errors = @ + 1], ret |-> <<>>, raised |-> FALSE]
          [] o.stage = "none" ->
               [stats |-> counted, ret |-> o.data, raised |-> FALSE]

\* Network.send: dispatch on the protocol of the instance
send(proto, st, o) ==
    IF proto = "TCP" THEN send_tcp(st, o) ELSE send_udp(st, o)

(***************************************************************************)
(* The monitor (monitor.py).                                               *)
(***************************************************************************)
\* Monitor.check_alive: `probe` is whether requests.get returned
check_alive(url, probe) == IF url = "" THEN TRUE ELSE probe

\* a save_crash that counts a crash twice
save_crash_twice(n) == n + 2

\* Monitor.save_crash: the crash count it leaves
save_crash(n) == n + 1

(***************************************************************************)
(* The eventing strategy functions (protocols/esp.py): each returns the    *)
(* set of (strategy tag, wire bytes) pairs it may return for a request     *)
(* object.                                                                 *)
(***************************************************************************)
ESP_fuzz_raw(r) ==
    { <<"raw", finalize_headers(r, get_headers_params(r))>> }

ESP_fuzz_radamsa(bin, r) ==
    LET request_headers == finalize_headers(r, get_headers_params(r))
    IN  { <<"radamsa", Radamsa_fuzz(bin, request_headers, out)>> :
            out \in RadamsaOutputs(request_headers) }

ESP_fuzz_injection(r) ==
    LET headers_params == get_headers_params(r)
    IN  { <<"injection", finalize_headers(r, Injection_fuzz(headers_params, idx, inj))>> :
            idx \in 1..Len(headers_params), inj \in LoopInjections }

ESP_fuzz_overflow(r) ==
    LET headers_params == get_headers_params(r)
    IN  { <<"overflow", finalize_headers(r, Overflow_fuzz(headers_params, idx, n, rep))>> :
            idx \in 1..Len(headers_params), n \in LoopOverflowLengths, rep \in BOOLEAN }

(***************************************************************************)
(* The eventing fuzz loop (ESP.run in protocols/esp.py).                   *)
(***************************************************************************)
AliveUrl == "http://192.168.1.1:5000/alive"

\* what the device may answer: nothing, or a response with SID headers
HttpResponse(hs) ==
    <<"HTTP/1.1 200 OK">> \o CRLF
      \o Join([i \in 1..Len(hs) |-> <<"SID: ">> \o hs[i] \o CRLF])
      \o CRLF

SidHeaderLists ==
    { <<>> } \cup { <<s>> : s \in SidValues }
      \cup { <<p[1], p[2]>> : p \in { q \in SidValues \X SidValues : q[1] # q[2] } }

Responses == { <<>> } \cup { HttpResponse(hs) : hs \in SidHeaderLists }

Fuzzers == {"fuzz_raw", "fuzz_all", "fuzz_radamsa", "fuzz_injection", "fuzz_overflow"}

NoRequest == [kind |-> "none", event |-> <<>>, sid |-> <<>>]

\* the parts of the state the eventing loop does not use
IdleNet == net = [fn |-> "none", ret |-> <<>>, raised |-> FALSE, proto |-> "TCP",
                  stage |-> "none", exc |-> "none"]
IdleSoap == action = [action_type |-> "none"] /\ branch = "none" /\ actions = <<>>
IdleMain == /\ args = [proto |-> "none"]
            /\ exit_code = -1
            /\ crash_dir_exists = FALSE
            /\ fuzz_sent = 0
            /\ grammar = "none"
            /\ files = <<>> /\ saves = <<>> /\ clock = 1
            /\ target_up = TRUE
            /\ call = [fn |-> "none"]

\* the configurations of the eventing loop that are explored: the strategy
\* function, whether radamsa was found, whether an alive URL is configured,
\* and the event endpoint set bootstrap left
ESPConfigs ==
    { [fuzzer |-> "fuzz_raw", binary |-> "", alive_url |-> "", events |-> EventLists2],
      [fuzzer |-> "fuzz_raw", binary |-> "radamsa", alive_url |-> AliveUrl, events |-> EventLists1],
      [fuzzer |-> "fuzz_all", binary |-> "radamsa", alive_url |-> "", events |-> EventLists1],
      [fuzzer |-> "fuzz_radamsa", binary |-> "", alive_url |-> "", events |-> EventLists1],
      [fuzzer |-> "fuzz_injection", binary |-> "", alive_url |-> "", events |-> EventLists1],
      [fuzzer |-> "fuzz_overflow", binary |-> "", alive_url |-> "", events |-> EventLists1] }

\* the state when raw() or fuzz() enters run() after a successful bootstrap
InitESP ==
    /\ mode = "esp"
    /\ pc = "fuzz"
    /\ \E c \in ESPConfigs :
         /\ events = c.events
         /\ fuzzer = c.fuzzer
         /\ binary = c.binary
         /\ alive_url = c.alive_url
    /\ sids = NoSids
    /\ event = <<>>
    /\ rq = NoRequest
    /\ drawn = <<>>
    /\ current_strategy = "none"
    /\ request = <<>>
    /\ response = <<>>
    /\ crashes = 0
    /\ issued = NoSids
    /\ total_requests = 0 /\ timeouts = 0 /\ errors = 0 /\ calls = 0
    /\ IdleNet /\ IdleSoap /\ IdleMain

\* current_strategy, request = fuzzer(), for a strategy function F
\* the strategy function run() was handed, applied to a request
ESP_fuzzer(name, bin, r) ==
    CASE name = "fuzz_raw" -> ESP_fuzz_raw(r)
      [] name = "fuzz_radamsa" -> ESP_fuzz_radamsa(bin, r)
      [] name = "fuzz_injection" -> ESP_fuzz_injection(r)
      [] name = "fuzz_overflow" -> ESP_fuzz_overflow(r)

ESP_Fuzz(name) ==
    /\ mode = "esp" /\ pc = "fuzz"
    /\ total_requests < MaxRequests
    /\ \E g \in get_request([events |-> events, sids |-> sids, event |-> event]) :
         \E res \in ESP_fuzzer(name, binary, g.rq) :
            /\ rq' = g.rq
            /\ sids' = g.sids
            /\ event' = g.event
            /\ drawn' = g.drawn
            /\ current_strategy' = res[1]
            /\ request' = res[2]
    /\ pc' = "send"
    /\ UNCHANGED <<mode, events, fuzzer, binary, response, alive_url, crashes, issued>>
    /\ UNCHANGED <<netVars, soapVars, mainVars>>

ESP_FuzzRaw == fuzzer = "fuzz_raw" /\ ESP_Fuzz("fuzz_raw")

ESP_FuzzRadamsa ==
    /\ fuzzer \in {"fuzz_radamsa", "fuzz_all"}
    /\ ESP_Fuzz("fuzz_radamsa")

ESP_FuzzInjection ==
    /\ fuzzer \in {"fuzz_injection", "fuzz_all"}
    /\ ESP_Fuzz("fuzz_injection")

ESP_FuzzOverflow ==
    /\ fuzzer \in {"fuzz_overflow", "fuzz_all"}
    /\ ESP_Fuzz("fuzz_overflow")

\* response = self.network.send(request), over TCP
ESP_Send ==
    /\ mode = "esp" /\ pc = "send"
    /\ \E o \in Outcomes(Responses) :
         LET r == send("TCP", Stats(total_requests, timeouts, errors), o)
         IN  /\ total_requests' = r.stats.total_requests
             /\ timeouts' = r.stats.timeouts
             /\ errors' = r.stats.errors
             /\ response' = r.ret
    /\ calls' = calls + 1
    /\ pc' = "handle_sid"
    /\ UNCHANGED <<mode, events, sids, event, rq, drawn, fuzzer, binary,
                   current_strategy, request, alive_url, crashes, issued, net>>
    /\ UNCHANGED <<soapVars, mainVars>>

\* handle_sid(response) using up the endpoint of the request it answers
ESP_HandleSid_using_up_endpoint ==
    /\ mode = "esp" /\ pc = "handle_sid"
    /\ sids' = handle_sid(sids, event, response)
    /\ events' = IF re_search_SID(response) # <<>> THEN <<>> ELSE events
    /\ pc' = "check_alive"
    /\ UNCHANGED <<mode, event, rq, drawn, fuzzer, binary, current_strategy,
                   request, response, alive_url, crashes, issued>>
    /\ UNCHANGED <<netVars, soapVars, mainVars>>

\* self.generator.handle_sid(response)
ESP_HandleSid ==
    /\ mode = "esp" /\ pc = "handle_sid"
    /\ sids' = handle_sid(sids, event, response)
    /\ issued' = LET res == re_search_SID(response)
                 IN  IF res # <<>> /\ res[1] \notin DOMAIN issued
                     THEN DictSet(issued, res[1], rq.event)
                     ELSE issued
    /\ pc' = "check_alive"
    /\ UNCHANGED <<mode, events, event, rq, drawn, fuzzer, binary, current_strategy,
                   request, response, alive_url, crashes>>
    /\ UNCHANGED <<netVars, soapVars, mainVars>>

\* if not self.monitor.check_alive(): ...
ESP_CheckAlive ==
    /\ mode = "esp" /\ pc = "check_alive"
    /\ \E probe \in BOOLEAN :
         pc' = IF check_alive(alive_url, probe) THEN "sleep" ELSE "handle_crash"
    /\ UNCHANGED <<mode, espVars, netVars, soapVars, mainVars>>

\* Monitor.handle_crash up to its wait loop: the crash is saved
ESP_HandleCrash ==
    /\ mode = "esp" /\ pc = "handle_crash"
    /\ crashes' = save_crash(crashes)
    /\ pc' = "wait_alive"
    /\ UNCHANGED <<mode, events, sids, event, rq, drawn, fuzzer, binary,
                   current_strategy, request, response, alive_url, issued>>
    /\ UNCHANGED <<netVars, soapVars, mainVars>>

\* while not self.check_alive(): the probe of the wait loop
ESP_WaitAlive ==
    /\ mode = "esp" /\ pc = "wait_alive"
    /\ \E probe \in BOOLEAN :
         pc' = IF check_alive(alive_url, probe) THEN "sleep" ELSE "restart_delay"
    /\ UNCHANGED <<mode, espVars, netVars, soapVars, mainVars>>

\* time.sleep(self.restart_delay) in the wait loop
ESP_RestartDelay ==
    /\ mode = "esp" /\ pc = "restart_delay"
    /\ pc' = "wait_alive"
    /\ UNCHANGED <<mode, espVars, netVars, soapVars, mainVars>>

\* time.sleep(self.delay), then the next iteration: the locals of the
\* iteration that ends are dead
ESP_Sleep ==
    /\ mode = "esp" /\ pc = "sleep"
    /\ pc' = "fuzz"
    /\ rq' = NoRequest /\ drawn' = <<>>
    /\ current_strategy' = "none" /\ request' = <<>> /\ response' = <<>>
    /\ UNCHANGED <<mode, events, sids, event, fuzzer, binary, alive_url, crashes, issued>>
    /\ UNCHANGED <<netVars, soapVars, mainVars>>

NextESP ==
    \/ ESP_FuzzRaw \/ ESP_FuzzRadamsa \/ ESP_FuzzInjection \/ ESP_FuzzOverflow
    \/ ESP_Send \/ ESP_HandleSid \/ ESP_CheckAlive \/ ESP_HandleCrash
    \/ ESP_WaitAlive \/ ESP_RestartDelay \/ ESP_Sleep

SpecESP == InitESP /\ [][NextESP]_vars


(***************************************************************************)
(* Claims about the subscription table.                                    *)
(***************************************************************************)
\* a step of the loop that adds an entry to the table or changes one
TableGrowsOrChanges ==
    \E s \in DOMAIN sids' : s \notin DOMAIN sids \/ sids'[s] # sids[s]

\* C2: an entry is inserted into the subscription table only when the
\* response to a NewSubscribe request carries a SID; a response to a
\* RenewalSubscribe or an Unsubscribe never adds an entry and never changes
\* an existing one.
C2_OnlyNewSubscribeInserts ==
    [][ (mode = "esp" /\ TableGrowsOrChanges)
          => /\ pc = "handle_sid"
             /\ rq.kind = "NewSubscribe"
             /\ re_search_SID(response) # <<>> ]_vars

\* C3: every entry of the subscription table maps a SID to the event URL of
\* the subscription request that produced that SID; a SID issued for event
\* URL A is never stored with a different event URL B.
C3_SidKeepsItsEventUrl ==
    mode = "esp" => \A s \in DOMAIN sids : s \in DOMAIN issued /\ sids[s] = issued[s]

\* a step that synthesizes an Unsubscribe whose SID was drawn from the table
UnsubscribeDrawn ==
    /\ pc = "fuzz" /\ pc' = "send"
    /\ rq'.kind = "Unsubscribe"
    /\ drawn' # <<>>

\* C4: after an Unsubscribe synthesis that drew its SID from the table, the
\* table no longer contains that SID and every other entry is unchanged, for
\* every SID value the table can hold (the empty one included); no other
\* operation removes an entry.
C4_UnsubscribeRemovesDrawnSid ==
    [][ mode = "esp"
          => /\ UnsubscribeDrawn => sids' = DictDel(sids, drawn'[1])
             /\ ~UnsubscribeDrawn => (DOMAIN sids) \subseteq (DOMAIN sids') ]_vars

\* the SID values X for which the response contains SID: X CRLF
SidsCarried(b) == { X \in SidValues : Contains(b, <<"SID: ">> \o X \o CRLF) }

\* C5 (as stated): if the response contains SID: X CRLF and current_event is
\* E, then when the liveness probe of the iteration starts the table maps X
\* to E; a response without such a header leaves the table unchanged.
C5_EverySidHeaderIsStored ==
    [][ (mode = "esp" /\ pc = "handle_sid")
          => /\ pc' = "check_alive"
             /\ \A X \in SidsCarried(response) : X \in DOMAIN sids' /\ sids'[X] = event
             /\ SidsCarried(response) = {} => sids' = sids ]_vars

\* C5 (amended): with X the group of the leftmost match of SID: (.*?) CRLF in
\* the response, the table maps X to current_event when the liveness probe
\* starts and no other entry has changed; a response without a match leaves
\* the table unchanged.
C5_FirstSidHeaderIsStored ==
    [][ (mode = "esp" /\ pc = "handle_sid")
          => LET m == re_search_SID(response)
             IN  /\ pc' = "check_alive"
                 /\ m # <<>> => /\ m[1] \in DOMAIN sids'
                                /\ sids'[m[1]] = event
                                /\ DOMAIN sids' = (DOMAIN sids) \cup {m[1]}
                                /\ \A s \in (DOMAIN sids) \ {m[1]} : sids'[s] = sids[s]
                 /\ m = <<>> => sids' = sids ]_vars

\* the probe is about to start after a response with two SID headers: only
\* the first one is in the table
C5_Witness ==
    /\ mode = "esp" /\ pc = "check_alive"
    /\ response = HttpResponse(<< <<"uuid:1">>, <<>> >>)
    /\ event = <<"/evt/a">>
    /\ DOMAIN sids = { <<"uuid:1">> }
    /\ sids[<<"uuid:1">>] = event


(***************************************************************************)
(* The transport on its own: a Network instance and the calls its callers  *)
(* issue (send from the fuzz loops, send_udp_wait from SSDP.discover).     *)
(***************************************************************************)
\* what a peer may send back
NetDatas == { <<>>, <<"HTTP/1.1 200 OK">> \o CRLF \o CRLF }

IdleESP ==
    /\ events = <<>> /\ sids = NoSids /\ event = <<>> /\ rq = NoRequest
    /\ drawn = <<>> /\ fuzzer = "none" /\ binary = "" /\ current_strategy = "none"
    /\ request = <<>> /\ response = <<>> /\ alive_url = "" /\ crashes = 0
    /\ issued = NoSids

\* the state after Network.__init__
InitNet ==
    /\ mode = "net"
    /\ pc = "idle"
    /\ total_requests = 0 /\ timeouts = 0 /\ errors = 0
    /\ calls = 0
    /\ \E proto \in {"TCP", "UDP"} :
         net = [fn |-> "none", ret |-> <<>>, raised |-> FALSE, proto |-> proto,
                stage |-> "none", exc |-> "none"]
    /\ IdleESP /\ IdleSoap /\ IdleMain

\* a call of Network.send(data): send_tcp or send_udp, start to end
Net_Send ==
    /\ mode = "net" /\ pc = "idle"
    /\ calls < MaxCalls
    /\ \E o \in (IF net.proto = "TCP" THEN Outcomes(NetDatas) ELSE UdpOutcomes(NetDatas)) :
         LET r == send(net.proto, Stats(total_requests, timeouts, errors), o)
         IN  /\ total_requests' = r.stats.total_requests
             /\ timeouts' = r.stats.timeouts
             /\ errors' = r.stats.errors
             /\ net' = [fn |-> IF net.proto = "TCP" THEN "send_tcp" ELSE "send_udp",
                        ret |-> r.ret, raised |-> r.raised, proto |-> net.proto,
                        stage |-> o.stage, exc |-> o.exc]
             /\ pc' = IF r.raised THEN "raised" ELSE "idle"
    /\ calls' = calls + 1
    /\ UNCHANGED <<mode, espVars, soapVars, mainVars>>

\* send_udp_wait up to its receive loop: socket(), setsockopt(), sendto(),
\* none of them inside a try
Net_SendUdpWait ==
    /\ mode = "net" /\ pc = "idle"
    /\ net.proto = "UDP"
    /\ calls < MaxCalls
    /\ \E st \in {"none", "socket", "send"} :
         /\ net' = [fn |-> "send_udp_wait", ret |-> <<>>, raised |-> st # "none",
                    proto |-> net.proto, stage |-> st,
                    exc |-> IF st = "none" THEN "none" ELSE "error"]
         /\ pc' = IF st = "none" THEN "collecting" ELSE "raised"
    /\ calls' = calls + 1
    /\ UNCHANGED <<mode, total_requests, timeouts, errors, espVars, soapVars, mainVars>>

\* one round of the receive loop of send_udp_wait: a datagram is yielded, a
\* timeout ends the sequence, any other error leaves the generator
Net_SendUdpWaitRecv ==
    /\ mode = "net" /\ pc = "collecting"
    /\ \/ \E d \in NetDatas :
            /\ net' = [net EXCEPT !.ret = d, !.stage = "none", !.exc = "none"]
            /\ pc' = "collecting"
       \/ /\ net' = [net EXCEPT !.ret = <<>>, !.stage = "recv", !.exc = "timeout"]
          /\ pc' = "idle"
       \/ /\ net' = [net EXCEPT !.ret = <<>>, !.stage = "recv", !.exc = "error",
                                !.raised = TRUE]
          /\ pc' = "raised"
    /\ UNCHANGED <<mode, total_requests, timeouts, errors, calls, espVars, soapVars, mainVars>>

NextNet == Net_Send \/ Net_SendUdpWait \/ Net_SendUdpWaitRecv

SpecNet == InitNet /\ [][NextNet]_vars

(***************************************************************************)
(* Claims about the transport.                                             *)
(***************************************************************************)
\* C6: total_requests increments by exactly one on every send attempt,
\* whatever the outcome, so it equals the number of send calls issued (TCP
\* send, UDP unicast send and the multicast send-and-collect variant).
C6_TotalRequestsCountsEverySend ==
    (mode = "net" /\ pc # "raised") => total_requests = calls

\* a step in which a call of send_tcp or send_udp fails at connect, at
\* write/sendto or at receive
FailedSend ==
    /\ calls' = calls + 1
    /\ net'.fn \in {"send_tcp", "send_udp"}
    /\ net'.stage \in {"connect", "send", "recv"}

\* C7: a send that times out increments timeouts by one and returns empty
\* bytes; a send that fails with any other transport error (at connect, at
\* write/sendto or at receive, on TCP and on UDP) increments errors by one and
\* returns empty bytes; no failed send leaves both counters unchanged.
C7_EveryFailedSendIsClassified ==
    [][ (mode = "net" /\ FailedSend)
          => /\ net'.ret = <<>>
             /\ net'.exc = "timeout" => timeouts' = timeouts + 1 /\ errors' = errors
             /\ net'.exc = "error" => errors' = errors + 1 /\ timeouts' = timeouts ]_vars

\* C8: the transport never raises to its caller: for every transport failure
\* on the TCP path, the UDP unicast path and the multicast collect path the
\* call returns and the caller proceeds.
C8_TransportNeverRaises ==
    mode = "net" => pc # "raised" /\ ~net.raised


(***************************************************************************)
(* SOAP requests (generators/soap.py).  An Action is a record              *)
(* [control_url, service_type, action_name, action_type, arguments]; an    *)
(* Argument is a record [name, data_type, default_value, allowed_values].  *)
(***************************************************************************)
\* s.encode("utf-8") of a string without CR or LF
encode(str) == IF str = "" THEN <<>> ELSE <<str>>

\* str(n).encode("utf-8") for any integer n
StrInt(n) == IF n < 0 THEN <<"-">> \o Str(-n) ELSE Str(n)

\* random.randint drawing one past the upper end
RandInt_past_end(lo, hi) == {lo, hi + 1}

\* the draws of random.randint(lo, hi) that are explored: both ends
RandInt(lo, hi) == {lo, hi}

\* the lengths drawn for "A" * random.randint(0, 0xff) that are explored
ALengths == {0, 3}

\* _get_argument_value looking at the default value before the allowed values
ArgumentValues_default_first(argument) ==
    IF argument.default_value # ""
    THEN { encode(argument.default_value) }
    ELSE IF argument.allowed_values # <<>>
    THEN { encode(argument.allowed_values[i]) : i \in 1..Len(argument.allowed_values) }
    ELSE { <<"A">> }

\* the values _get_argument_value may pick for an argument
ArgumentValues(argument) ==
    IF argument.allowed_values # <<>>
    THEN { encode(argument.allowed_values[i]) : i \in 1..Len(argument.allowed_values) }
    ELSE IF argument.default_value # ""
    THEN { encode(argument.default_value) }
    ELSE CASE argument.data_type = "ui1" -> { StrInt(n) : n \in RandInt(0, 255) }
           [] argument.data_type = "ui2" -> { StrInt(n) : n \in RandInt(0, 65535) }
           [] argument.data_type = "ui4" ->
                { <<"0">>, <<"4", "2", "9", "4", "9", "6", "7", "2", "9", "5">> }
           [] argument.data_type = "i1" -> { StrInt(n) : n \in RandInt(-128, 127) }
           [] argument.data_type = "i2" -> { StrInt(n) : n \in RandInt(-32768, 32767) }
           [] argument.data_type = "i4" ->
                { <<"-", "2", "1", "4", "7", "4", "8", "3", "6", "4", "8">>,
                  <<"2", "1", "4", "7", "4", "8", "3", "6", "4", "7">> }
           [] argument.data_type = "boolean" ->
                { <<"0">>, <<"1">>, <<"true">>, <<"false">>, <<"yes">>, <<"no">> }
           [] argument.data_type = "string" -> { <<"192.168.1.4">> }
           [] argument.data_type \in {"number", "fixed.14.14", "float"} ->
                { <<"-1.8e+30">>, <<"0.0">>, <<"1.8e+30">> }
           [] argument.data_type = "char" -> { <<"A">> }
           [] argument.data_type = "date" -> { <<"2000-01-01">>, <<"2030-01-01">> }
           [] argument.data_type = "dateTime" ->
                { <<"2000-01-01">>, <<"2000-01-01", "T00:00:00">>,
                  <<"2030-01-01", "T23:59:59">> }
           [] argument.data_type = "dateTime.tz" ->
                { <<"2000-01-01">>, <<"2000-01-01", "T00:00:00">>,
                  <<"2000-01-01", "-12:00">>, <<"2030-01-01", "T23:59:59", "+14:45">> }
           [] argument.data_type = "time" ->
                { <<"2000-01-01T00:00:00">>, <<"2030-01-01T00:00:00">> }
           [] argument.data_type = "time.tz" ->
                { <<"2000-01-01T00:00:00", "-12:00">>, <<"2030-01-01T00:00:00", "+14:45">> }
           [] argument.data_type = "bin.base64" -> { <<>>, <<"QUFB">> }
           [] argument.data_type = "bin.hex" -> { <<>>, <<"414141">> }
           [] argument.data_type = "uri" -> { <<"http://127.0.0.1/path">> }
           [] argument.data_type = "uuid" ->
                { <<"6fa459ea-ee8a-4ca4-894e-db77e160355e">> }
           [] OTHER -> { encode(Pattern(n)) : n \in ALengths }

\* SOAPRequest._get_argument_value: the five slots of an argument with the
\* value that was picked
get_argument_value(argument, value) ==
    << <<"<">>, encode(argument.name), <<">">>,
       value,
       <<"</">>, encode(argument.name), <<">", LF>> >>

\* the value picks for a list of arguments, one per argument
RECURSIVE ValuePicks(_)
ValuePicks(arguments) ==
    IF arguments = <<>> THEN { <<>> }
    ELSE { <<v>> \o rest : v \in ArgumentValues(Head(arguments)),
                           rest \in ValuePicks(Tail(arguments)) }

\* get_body_params without the test of the action's direction
get_body_params_any_direction(act, values) ==
    << <<"<?xml version=\"1.0\"?>", LF>>, <<"<m:">>, encode(act.action_name) >>
      \o Join([i \in 1..Len(act.arguments) |->
                 get_argument_value(act.arguments[i], values[i])])

\* SOAPRequest.get_body_params for the picked values
get_body_params(act, values) ==
    IF act.action_type = "IN"
    THEN << <<"<?xml version=\"1.0\"?>", LF>>,
            <<"<SOAP-ENV:Envelope xmlns:SOAP-ENV=\"http://schemas.xmlsoap.org/soap/envelope\" SOAP-ENV:encodingStyle=\"http://schemas.xmlsoap.org/soap/encoding/\">", LF>>,
            <<"<SOAP-ENV:Body>", LF>>,
            <<"<m:">>, encode(act.action_name), <<" ">>, <<"xmlns:m=\"">>,
            encode(act.service_type), <<"\">", LF>> >>
         \o Join([i \in 1..Len(act.arguments) |->
                    get_argument_value(act.arguments[i], values[i])])
         \o << <<"</m:">>, encode(act.action_name), <<">", LF>>,
               <<"</SOAP-ENV:Body>", LF>>,
               <<"</SOAP-ENV:Envelope>", LF>> >>
    ELSE <<>>

\* SOAPRequest.finalize_body
finalize_body(body_params) == Join(body_params)

\* get_headers_params with the Content-Length slot left at zero
SOAP_get_headers_params_zero_length(act, content_length) ==
    << encode(act.control_url), Host, Port, StrInt(0),
       encode(act.service_type), encode(act.action_name) >>

\* SOAPRequest.get_headers_params
SOAP_get_headers_params(act, content_length) ==
    << encode(act.control_url), Host, Port, StrInt(content_length),
       encode(act.service_type), encode(act.action_name) >>

\* SOAPRequest.finalize_headers
SOAP_finalize_headers(hp) ==
    <<"POST ">> \o hp[1] \o <<" HTTP/1.1">> \o CRLF \o
    <<"Host: ">> \o hp[2] \o <<":">> \o hp[3] \o CRLF \o
    <<"Content-Length: ">> \o hp[4] \o CRLF \o
    <<"Content-Type: text/xml">> \o CRLF \o
    <<"SOAPAction: \"">> \o hp[5] \o <<"#">> \o hp[6] \o <<"\"">> \o CRLF \o
    CRLF

\* the action catalogs bootstrap may leave: actions of both directions, with
\* and without allowed values and default values
Arg(name, data_type, default_value, allowed_values) ==
    [name |-> name, data_type |-> data_type, default_value |-> default_value,
     allowed_values |-> allowed_values]

Catalog ==
    << [control_url |-> "/ctl/SwitchPower", service_type |-> "urn:upnp-org:serviceId:SwitchPower",
        action_name |-> "SetTarget", action_type |-> "IN",
        arguments |-> << Arg("NewTargetValue", "boolean", "", <<>>) >>],
       [control_url |-> "/ctl/SwitchPower", service_type |-> "urn:upnp-org:serviceId:SwitchPower",
        action_name |-> "GetStatus", action_type |-> "OUT",
        arguments |-> << Arg("ResultStatus", "boolean", "", <<>>) >>],
       [control_url |-> "/ctl/Dimming", service_type |-> "urn:upnp-org:serviceId:Dimming",
        action_name |-> "SetLoadLevelTarget", action_type |-> "IN",
        arguments |-> << Arg("newLoadlevelTarget", "ui1", "", <<>>),
                         Arg("Mode", "string", "AUTO", <<"AUTO", "MANUAL">>) >>] >>

(***************************************************************************)
(* The SOAP strategy functions (protocols/soap.py): each returns the set   *)
(* of results it may return for an action, as records [tag, request,       *)
(* branch], branch telling which part was handed to the mutator.           *)
(***************************************************************************)
Result(tag, req, br) == [tag |-> tag, request |-> req, branch |-> br]

SOAP_fuzz_raw(act) ==
    { LET request_body == finalize_body(get_body_params(act, vs))
          headers_params == SOAP_get_headers_params(act, ByteLen(request_body))
      IN  Result("raw", SOAP_finalize_headers(headers_params) \o request_body, "none") :
        vs \in ValuePicks(act.arguments) }

SOAP_fuzz_radamsa(bin, act) ==
    UNION { LET body_params == get_body_params(act, vs)
                request_body == finalize_body(body_params)
                request_headers ==
                    SOAP_finalize_headers(SOAP_get_headers_params(act, ByteLen(request_body)))
            IN  (IF body_params # <<>>
                 THEN { LET fuzzed == Radamsa_fuzz(bin, request_body, out)
                        IN  Result("radamsa",
                                   SOAP_finalize_headers(
                                       SOAP_get_headers_params(act, ByteLen(fuzzed))) \o fuzzed,
                                   "body") :
                          out \in RadamsaOutputs(request_body) }
                 ELSE {})
                  \cup { Result("radamsa",
                                Radamsa_fuzz(bin, request_headers, out) \o request_body,
                                "headers") :
                           out \in RadamsaOutputs(request_headers) } :
            vs \in ValuePicks(act.arguments) }

\* the lists Injection.fuzz may return for a slot list
InjectionMutations(params) ==
    { Injection_fuzz(params, idx, inj) : idx \in 1..Len(params), inj \in SOAPInjections }

\* the lists Overflow.fuzz may return for a slot list
OverflowMutations(params) ==
    { Overflow_fuzz(params, idx, n, rep) :
        idx \in 1..Len(params), n \in OverflowLengths, rep \in BOOLEAN }

\* an injection strategy that mutates the body slots and a header slot of the
\* same request
SOAP_fuzz_injection_both(act) ==
    UNION { LET body_params == get_body_params(act, vs)
                request_body == finalize_body(body_params)
                hp == SOAP_get_headers_params(act, ByteLen(request_body))
            IN  { Result("injection",
                         SOAP_finalize_headers(Injection_fuzz(hp, 1, m[1])) \o finalize_body(m),
                         "body") :
                    m \in InjectionMutations(body_params) }
                  \cup { Result("injection", SOAP_finalize_headers(m) \o request_body, "headers") :
                           m \in InjectionMutations(hp) } :
            vs \in ValuePicks(act.arguments) }

SOAP_fuzz_injection(act) ==
    UNION { LET body_params == get_body_params(act, vs)
                request_body == finalize_body(body_params)
            IN  (IF body_params # <<>>
                 THEN { LET fuzzed_body == finalize_body(m)
                        IN  Result("injection",
                                   SOAP_finalize_headers(
                                       SOAP_get_headers_params(act, ByteLen(fuzzed_body)))
                                     \o fuzzed_body,
                                   "body") :
                          m \in InjectionMutations(body_params) }
                 ELSE {})
                  \cup { Result("injection", SOAP_finalize_headers(m) \o request_body, "headers") :
                           m \in InjectionMutations(
                                     SOAP_get_headers_params(act, ByteLen(request_body))) } :
            vs \in ValuePicks(act.arguments) }

SOAP_fuzz_overflow(act) ==
    UNION { LET body_params == get_body_params(act, vs)
                request_body == finalize_body(body_params)
            IN  (IF body_params # <<>>
                 THEN { LET fuzzed_body == finalize_body(m)
                        IN  Result("overflow",
                                   SOAP_finalize_headers(
                                       SOAP_get_headers_params(act, ByteLen(fuzzed_body)))
                                     \o fuzzed_body,
                                   "body") :
                          m \in OverflowMutations(body_params) }
                 ELSE {})
                  \cup { Result("overflow", SOAP_finalize_headers(m) \o request_body, "headers") :
                           m \in OverflowMutations(
                                     SOAP_get_headers_params(act, ByteLen(request_body))) } :
            vs \in ValuePicks(act.arguments) }

(***************************************************************************)
(* The SOAP strategy functions applied to the actions of a catalog.        *)
(***************************************************************************)
NoAction == [action_type |-> "none"]

InitSOAP ==
    /\ mode = "soap"
    /\ pc = "fuzz"
    /\ binary \in {"", "radamsa"}
    /\ action = NoAction /\ branch = "none"
    /\ actions = Catalog
    /\ events = <<>> /\ sids = NoSids /\ event = <<>> /\ rq = NoRequest
    /\ drawn = <<>> /\ fuzzer = "none" /\ current_strategy = "none"
    /\ request = <<>> /\ response = <<>> /\ alive_url = "" /\ crashes = 0
    /\ issued = NoSids
    /\ total_requests = 0 /\ timeouts = 0 /\ errors = 0 /\ calls = 0
    /\ IdleNet /\ IdleMain

\* current_strategy, request = F(), F drawing its action with get_request()
\* the strategy function run() was handed, applied to an action
SOAP_fuzzer(name, bin, act) ==
    CASE name = "fuzz_raw" -> SOAP_fuzz_raw(act)
      [] name = "fuzz_radamsa" -> SOAP_fuzz_radamsa(bin, act)
      [] name = "fuzz_injection" -> SOAP_fuzz_injection(act)
      [] name = "fuzz_overflow" -> SOAP_fuzz_overflow(act)

SOAP_Fuzz(name) ==
    /\ mode = "soap" /\ pc = "fuzz"
    /\ \E i \in 1..Len(actions) :
         \E res \in SOAP_fuzzer(name, binary, actions[i]) :
            /\ action' = actions[i]
            /\ current_strategy' = res.tag
            /\ request' = res.request
            /\ branch' = res.branch
    /\ pc' = "built"
    /\ UNCHANGED <<mode, events, sids, event, rq, drawn, fuzzer, binary, response,
                   alive_url, crashes, issued, actions>>
    /\ UNCHANGED <<netVars, mainVars>>

SOAP_FuzzRaw == mode = "soap" /\ SOAP_Fuzz("fuzz_raw")

SOAP_FuzzRadamsa == mode = "soap" /\ SOAP_Fuzz("fuzz_radamsa")

SOAP_FuzzInjection == mode = "soap" /\ SOAP_Fuzz("fuzz_injection")

SOAP_FuzzOverflow == mode = "soap" /\ SOAP_Fuzz("fuzz_overflow")

\* the result has been used and the strategy function is called again
SOAP_Again ==
    /\ mode = "soap" /\ pc = "built"
    /\ pc' = "fuzz"
    /\ action' = NoAction /\ branch' = "none"
    /\ current_strategy' = "none" /\ request' = <<>>
    /\ UNCHANGED <<mode, events, sids, event, rq, drawn, fuzzer, binary, response,
                   alive_url, crashes, issued, actions>>
    /\ UNCHANGED <<netVars, mainVars>>

NextSOAP ==
    \/ SOAP_FuzzRaw
    \/ SOAP_FuzzRadamsa
    \/ SOAP_FuzzInjection
    \/ SOAP_FuzzOverflow
    \/ SOAP_Again

SpecSOAP == InitSOAP /\ [][NextSOAP]_vars

(***************************************************************************)
(* Reading a request off the wire.                                         *)
(***************************************************************************)
\* positions at which the blank line that ends the headers may start
HeaderEnds(w) == { i \in 1..Len(w) : OccursAt(w, CRLF \o CRLF, i) }

\* the bytes that follow the headers
WireBody(w) ==
    IF HeaderEnds(w) = {} THEN <<>>
    ELSE SubSeq(w, Min(HeaderEnds(w)) + 4, Len(w))

\* the value of the first Content-Length header line, -1 when there is none
\* or when it is not a number
WireContentLength(w) ==
    IF HeaderEnds(w) = {} THEN -1
    ELSE LET e == Min(HeaderEnds(w))
             starts == { j \in 2..e : w[j] = "Content-Length: " /\ w[j - 1] = LF }
         IN  IF starts = {} THEN -1
             ELSE LET j == Min(starts)
                      k == Min({ x \in (j + 1)..(e + 1) : w[x] = CR })
                  IN  ParseInt(SubSeq(w, j + 1, k - 1))

ContentLengthMatchesBody(w) == WireContentLength(w) = ByteLen(WireBody(w))

\* C1 (as stated): for every SOAP request produced by any of the four
\* strategy functions and every action of the catalog, the Content-Length
\* header of the wire bytes equals the byte length of the body that follows
\* the headers.
C1_ContentLengthMatchesBody ==
    (mode = "soap" /\ current_strategy # "none") => ContentLengthMatchesBody(request)

\* C1 (amended): the Content-Length header equals the byte length of the body
\* for every request of the raw strategy and for every request of radamsa,
\* injection and overflow in which the mutator was handed the body, or in
\* which the disabled radamsa tool left the headers as they were.
C1_ContentLengthMatchesBodyUnlessHeadersMutated ==
    (/\ mode = "soap"
     /\ \/ current_strategy = "raw"
        \/ current_strategy \in {"radamsa", "injection", "overflow"} /\ branch = "body"
        \/ current_strategy = "radamsa" /\ binary = "")
      => ContentLengthMatchesBody(request)

\* an injection into a body slot of SetTarget: the body has grown by the
\* payload and the header counts the grown body
C1_Witness ==
    /\ mode = "soap"
    /\ current_strategy = "injection" /\ branch = "body"
    /\ action.action_name = "SetTarget"
    /\ Contains(WireBody(request), <<"true", "$(", "reboot", ")", LF, "</">>)
    /\ WireContentLength(request) = ByteLen(WireBody(request))
    /\ WireContentLength(request) > ByteLen(finalize_body(get_body_params(action, << <<"true">> >>)))


(***************************************************************************)
(* main() (main.py): argument dispatch, grammar bootstrap, the entry       *)
(* points raw()/fuzz() and the loop of run() seen from the process: the    *)
(* requests it sends, the crash directory and crash files it makes, and    *)
(* the exit code it ends with.                                             *)
(***************************************************************************)
\* what requests.get and parseString may make of the description document
Descriptions ==
    { [fetch |-> "error", xml |-> "none", events |-> <<>>],
      [fetch |-> "ok", xml |-> "malformed", events |-> <<>>],
      [fetch |-> "ok", xml |-> "missing_element", events |-> <<>>],
      [fetch |-> "ok", xml |-> "ok", events |-> <<>>],
      [fetch |-> "ok", xml |-> "ok", events |-> EventLists1],
      [fetch |-> "ok", xml |-> "ok", events |-> EventLists2] }

\* ESPGenerator.generate_grammar: RequestException is caught and gives False;
\* parseString and the [0].firstChild.data lookups raise; the result is
\* whether any endpoint was found
ESP_generate_grammar(doc) ==
    IF doc.fetch = "error"
    THEN [raised |-> FALSE, result |-> FALSE, events |-> <<>>, how |-> "fetch_error"]
    ELSE IF doc.xml # "ok"
    THEN [raised |-> TRUE, result |-> FALSE, events |-> <<>>, how |-> doc.xml]
    ELSE [raised |-> FALSE, result |-> doc.events # <<>>, events |-> doc.events,
          how |-> IF doc.events # <<>> THEN "ok" ELSE "empty"]

BootstrapFailures == {"fetch_error", "malformed", "missing_element", "empty", "type_error"}

\* --list, --raw, --fuzz, --injection, --overflow, --radamsa, or none of them
Commands == {"none", "list", "raw", "fuzz", "injection", "overflow", "radamsa"}

\* the commands that enter run()
LoopCommands == {"raw", "fuzz", "injection", "overflow", "radamsa"}

\* the Strategy value main() selects for a command (lines 51-59); raw() passes
\* Strategy.RAW itself
SelectedStrategy(command) == IF command = "fuzz" THEN "all" ELSE command

\* a fuzz_all that may also pick the raw strategy function
CurrentStrategies_with_raw(selected) ==
    IF selected = "all" THEN {"raw", "radamsa", "injection", "overflow"} ELSE {selected}

\* the tags the strategy function handed to run() may return: fuzz_all picks
\* one of the three mutating functions, each of which returns its own tag
CurrentStrategies(selected) ==
    IF selected = "all" THEN {"radamsa", "injection", "overflow"} ELSE {selected}

\* the wire bytes a strategy function may return, as far as the monitor is
\* concerned
LoopRequests == { <<"NOTIFY * HTTP/1.1", CR, LF, CR, LF>>, <<>> }

\* datetime.now().strftime("%H_%M_%S_%d_%m_%Y") at the instants of the clock
Timestamps == <<"23_59_58_01_11_2026", "23_59_59_01_11_2026">>

\* the name save_crash builds when the ordinal is taken before the increment
crash_filename_before_increment(generator_name, strategy, n, now) ==
    <<generator_name, "_", strategy, "_">> \o StrInt(n - 1) \o <<"_at_", now>>

\* the name save_crash builds when the ordinal is left out
crash_filename_without_ordinal(generator_name, strategy, n, now) ==
    <<generator_name, "_", strategy, "_at_", now>>

\* save_crash: f"{generator_name}_{strategy.value}_{self.crashes}_at_{current_time}"
crash_filename(generator_name, strategy, n, now) ==
    <<generator_name, "_", strategy, "_">> \o StrInt(n) \o <<"_at_", now>>

\* open(path, "wb+") and f.write(request): the file is created or truncated
write_file(fs, name, data) ==
    [f \in DOMAIN fs \cup {name} |-> IF f = name THEN data ELSE fs[f]]

\* --restart-cmd when it is given
RestartCmd == "/etc/init.d/miniupnpd restart"

\* what subprocess.Popen and communicate() may do with the restart command:
\* the child exits with status 0 or with another status, or Popen raises
\* OSError because the program cannot be started
RunCommandOutcomes == {"0", "1", "raised"}

\* in the loop of main, `call` is the monitor's record of what it last asked
\* of the outside: the last answer of check_alive, the exit status of the
\* last restart command, and how many restart commands were started
NoMonitorCall == [fn |-> "none", alive |-> TRUE, returncode |-> "none", restarts |-> 0]

InitMain ==
    /\ mode = "main"
    /\ pc = "start"
    /\ args \in [proto : {"ssdp", "soap", "esp"}, command : Commands,
                 alive_url : {"", AliveUrl}, restart_cmd : {"", RestartCmd}]
    /\ exit_code = -1 /\ crash_dir_exists = FALSE /\ fuzz_sent = 0 /\ grammar = "none"
    /\ files = <<>> /\ saves = <<>> /\ clock = 1
    /\ target_up = TRUE
    /\ call = NoMonitorCall
    /\ IdleESP /\ IdleNet /\ IdleSoap
    /\ total_requests = 0 /\ timeouts = 0 /\ errors = 0 /\ calls = 0

MainLoopFrame == UNCHANGED <<mode, sids, event, rq, drawn, fuzzer, binary,
                             response, alive_url, issued, netVars, soapVars, args>>

MainFrame == MainLoopFrame
               /\ UNCHANGED <<current_strategy, request, files, saves, clock, target_up, call>>

\* return from main(), or an uncaught exception
Exit(code) == pc' = "exited" /\ exit_code' = code

\* raw() / fuzz(strategy) up to the call of run(): create_crash_dir()
EnterLoop == pc' = "loop" /\ crash_dir_exists' = TRUE

\* main.py 61-66: --ssdp has no grammar to fetch
Main_Ssdp ==
    /\ mode = "main" /\ pc = "start" /\ args.proto = "ssdp"
    /\ IF args.command \in LoopCommands
       THEN EnterLoop /\ UNCHANGED exit_code
       ELSE Exit(0) /\ UNCHANGED crash_dir_exists
    /\ UNCHANGED <<events, crashes, fuzz_sent, grammar>>
    /\ MainFrame

\* main.py 68-72: generate_grammar() is called without its soap_type
\* argument, which raises TypeError before anything is fetched (lines 74-79
\* are never reached)
Main_SoapBootstrap ==
    /\ mode = "main" /\ pc = "start" /\ args.proto = "soap"
    /\ grammar' = "type_error"
    /\ Exit(1)
    /\ UNCHANGED <<events, crashes, fuzz_sent, crash_dir_exists>>
    /\ MainFrame

\* main.py 81-85 with the result of generate_grammar() not looked at
Main_EspBootstrap_unchecked ==
    /\ mode = "main" /\ pc = "start" /\ args.proto = "esp"
    /\ \E doc \in Descriptions :
         LET g == ESP_generate_grammar(doc)
         IN  /\ grammar' = g.how
             /\ events' = g.events
             /\ pc' = "esp_ready" /\ UNCHANGED exit_code
    /\ UNCHANGED <<crashes, fuzz_sent, crash_dir_exists>>
    /\ MainFrame

\* main.py 81-85
Main_EspBootstrap ==
    /\ mode = "main" /\ pc = "start" /\ args.proto = "esp"
    /\ \E doc \in Descriptions :
         LET g == ESP_generate_grammar(doc)
         IN  /\ grammar' = g.how
             /\ events' = g.events
             /\ IF g.raised THEN Exit(1)
                ELSE IF ~g.result THEN Exit(0)
                ELSE pc' = "esp_ready" /\ UNCHANGED exit_code
    /\ UNCHANGED <<crashes, fuzz_sent, crash_dir_exists>>
    /\ MainFrame

\* main.py 87-90
Main_EspDispatch ==
    /\ mode = "main" /\ pc = "esp_ready"
    /\ IF args.command \in LoopCommands
       THEN EnterLoop /\ UNCHANGED exit_code
       ELSE Exit(0) /\ UNCHANGED crash_dir_exists
    /\ UNCHANGED <<events, crashes, fuzz_sent, grammar>>
    /\ MainFrame

\* run(): current_strategy, request = fuzzer() and network.send(request);
\* the request may bring the target down
Main_Fuzz ==
    /\ mode = "main" /\ pc = "loop"
    /\ fuzz_sent < MaxRequests
    /\ fuzz_sent' = fuzz_sent + 1
    /\ target_up' \in BOOLEAN
    /\ current_strategy' \in CurrentStrategies(SelectedStrategy(args.command))
    /\ request' \in LoopRequests
    /\ pc' = "check_alive"
    /\ UNCHANGED <<events, crashes, exit_code, crash_dir_exists, grammar, files, saves, clock,
                   call>>
    /\ MainLoopFrame

\* run(): check_alive(), then the sleep, or handle_crash() up to the end of
\* save_crash: the counter, the clock reading, the file; open() raises when
\* the crash directory is not there, and nothing catches it
Main_CheckAlive ==
    /\ mode = "main" /\ pc = "check_alive"
    /\ \E probe \in {target_up} :
         /\ call' = [call EXCEPT !.fn = "check_alive",
                                 !.alive = check_alive(args.alive_url, probe)]
         /\ IF check_alive(args.alive_url, probe)
            THEN /\ pc' = "loop"
                 /\ UNCHANGED <<crashes, files, saves, clock, exit_code>>
            ELSE /\ crashes' = save_crash(crashes)
                 /\ \E t \in clock..Len(Timestamps) :
                      LET name == crash_filename(args.proto, current_strategy, crashes',
                                                 Timestamps[t])
                      IN  /\ clock' = t
                          /\ IF crash_dir_exists
                             THEN /\ files' = write_file(files, name, request)
                                  /\ saves' = Append(saves, [name |-> name, ordinal |-> crashes'])
                                  /\ pc' = "restart"
                                  /\ UNCHANGED exit_code
                             ELSE /\ UNCHANGED <<files, saves>>
                                  /\ Exit(1)
    /\ UNCHANGED <<events, fuzz_sent, crash_dir_exists, grammar, current_strategy, request,
                   target_up>>
    /\ MainLoopFrame

\* a wait that is left after one probe whatever the probe says
Main_WaitAlive_once ==
    /\ mode = "main" /\ pc = "wait_alive"
    /\ \E probe \in {target_up} :
         /\ call' = [call EXCEPT !.fn = "check_alive",
                                 !.alive = check_alive(args.alive_url, probe)]
         /\ pc' = "loop"
    /\ UNCHANGED <<events, crashes, fuzz_sent, exit_code, crash_dir_exists, grammar,
                   current_strategy, request, files, saves, clock, target_up>>
    /\ MainLoopFrame

\* a restart step that ends the program when the child fails
Main_Restart_checking_status ==
    /\ mode = "main" /\ pc = "restart"
    /\ IF args.restart_cmd # ""
       THEN \E outcome \in RunCommandOutcomes :
               IF outcome # "0"
               THEN /\ call' = [call EXCEPT !.fn = "run_command", !.returncode = outcome]
                    /\ Exit(1)
               ELSE /\ call' = [call EXCEPT !.fn = "run_command", !.returncode = outcome,
                                            !.restarts = @ + 1]
                    /\ pc' = "wait_alive"
                    /\ UNCHANGED exit_code
       ELSE /\ pc' = "wait_alive"
            /\ UNCHANGED <<call, exit_code>>
    /\ target_up' \in BOOLEAN
    /\ UNCHANGED <<events, crashes, fuzz_sent, crash_dir_exists, grammar,
                   current_strategy, request, files, saves, clock>>
    /\ MainLoopFrame

\* handle_crash() after save_crash: if self.restart_cmd: run_command(...);
\* communicate() returns when the child has ended and its status is not looked
\* at; an OSError of Popen is not caught
Main_Restart ==
    /\ mode = "main" /\ pc = "restart"
    /\ IF args.restart_cmd # ""
       THEN \E outcome \in RunCommandOutcomes :
               IF outcome = "raised"
               THEN /\ call' = [call EXCEPT !.fn = "run_command", !.returncode = outcome]
                    /\ Exit(1)
               ELSE /\ call' = [call EXCEPT !.fn = "run_command", !.returncode = outcome,
                                            !.restarts = @ + 1]
                    /\ pc' = "wait_alive"
                    /\ UNCHANGED exit_code
       ELSE /\ pc' = "wait_alive"
            /\ UNCHANGED <<call, exit_code>>
    /\ target_up' \in BOOLEAN
    /\ UNCHANGED <<events, crashes, fuzz_sent, crash_dir_exists, grammar,
                   current_strategy, request, files, saves, clock>>
    /\ MainLoopFrame

\* a wait that goes back to sleep whatever the probe says
Main_WaitAlive_never_leaves ==
    /\ mode = "main" /\ pc = "wait_alive"
    /\ \E probe \in {target_up} :
         /\ call' = [call EXCEPT !.fn = "check_alive",
                                 !.alive = check_alive(args.alive_url, probe)]
         /\ pc' = "restart_delay"
    /\ UNCHANGED <<events, crashes, fuzz_sent, exit_code, crash_dir_exists, grammar,
                   current_strategy, request, files, saves, clock, target_up>>
    /\ MainLoopFrame

\* handle_crash(): while not check_alive(): sleep(restart_delay)
Main_WaitAlive ==
    /\ mode = "main" /\ pc = "wait_alive"
    /\ \E probe \in {target_up} :
         /\ call' = [call EXCEPT !.fn = "check_alive",
                                 !.alive = check_alive(args.alive_url, probe)]
         /\ pc' = IF check_alive(args.alive_url, probe) THEN "loop" ELSE "restart_delay"
    /\ UNCHANGED <<events, crashes, fuzz_sent, exit_code, crash_dir_exists, grammar,
                   current_strategy, request, files, saves, clock, target_up>>
    /\ MainLoopFrame

\* time.sleep(self.restart_delay): the target may come up meanwhile
Main_RestartDelay ==
    /\ mode = "main" /\ pc = "restart_delay"
    /\ pc' = "wait_alive"
    /\ target_up' \in BOOLEAN
    /\ UNCHANGED <<events, crashes, fuzz_sent, exit_code, crash_dir_exists, grammar,
                   current_strategy, request, files, saves, clock, call>>
    /\ MainLoopFrame

\* signal_handler: SIGINT at any point after line 17
Main_Interrupt ==
    /\ mode = "main" /\ pc \notin {"exited", "interrupted"}
    /\ pc' = "interrupted"
    /\ exit_code' = 0
    /\ UNCHANGED <<events, crashes, fuzz_sent, crash_dir_exists, grammar>>
    /\ MainFrame

\* the crash directory is removed from outside while the loop runs
Main_CrashDirRemoved ==
    /\ mode = "main" /\ pc \in {"loop", "check_alive"}
    /\ crash_dir_exists
    /\ crash_dir_exists' = FALSE
    /\ files' = <<>>
    /\ UNCHANGED <<pc, events, crashes, fuzz_sent, exit_code, grammar,
                   current_strategy, request, saves, clock, target_up, call>>
    /\ MainLoopFrame

NextMain ==
    \/ Main_Ssdp
    \/ Main_SoapBootstrap
    \/ Main_EspBootstrap
    \/ Main_EspDispatch
    \/ Main_Fuzz
    \/ Main_CheckAlive
    \/ Main_Restart
    \/ Main_WaitAlive
    \/ Main_RestartDelay
    \/ Main_Interrupt
    \/ Main_CrashDirRemoved

SpecMain == InitMain /\ [][NextMain]_vars

\* C9: when grammar bootstrap fails for SOAP or eventing (description fetch
\* error, malformed XML, empty catalog or empty endpoint set), the fuzz loop
\* never starts: no fuzz request is sent, and no crash directory and no crash
\* file is made.
C9_BootstrapFailureNeverStartsLoop ==
    (mode = "main" /\ grammar \in BootstrapFailures)
      => /\ pc = "exited"
         /\ fuzz_sent = 0
         /\ ~crash_dir_exists
         /\ crashes = 0

\* --esp URL --raw against a description without any eventSubURL: main has
\* returned with nothing sent and nothing made
C9_Witness ==
    /\ mode = "main" /\ pc = "exited"
    /\ args.proto = "esp" /\ args.command = "raw"
    /\ grammar = "empty"
    /\ fuzz_sent = 0 /\ ~crash_dir_exists /\ crashes = 0

\* C10: the exit code is 0 when the operator interrupts the program and
\* non-zero whenever grammar bootstrap fails.
C10_ExitCodes ==
    mode = "main"
      => /\ pc = "interrupted" => exit_code = 0
         /\ (pc = "exited" /\ grammar \in BootstrapFailures) => exit_code # 0


(***************************************************************************)
(* Crash files (monitor.py).                                               *)
(***************************************************************************)
\* a step of run() in which save_crash ran and the crash directory was there
CrashSaved ==
    /\ mode = "main" /\ pc = "check_alive"
    /\ crashes' # crashes
    /\ crash_dir_exists

C12_CrashFileNamesAreUnique ==
    mode = "main" =>
      /\ \A i, j \in DOMAIN saves :
           i < j => saves[i].name # saves[j].name /\ saves[i].ordinal < saves[j].ordinal
      /\ crash_dir_exists => \A i \in DOMAIN saves : saves[i].name \in DOMAIN files

\* two crashes of the same strategy within the same second
C12_Witness ==
    /\ mode = "main"
    /\ Len(saves) >= 2
    /\ saves[1].name[3] = saves[2].name[3]
    /\ saves[1].name[Len(saves[1].name)] = saves[2].name[Len(saves[2].name)]
    /\ saves[1].name # saves[2].name
    /\ Cardinality(DOMAIN files) = Len(saves)

\* C13: when writing the crash file fails (the crash directory is missing at
\* the time of the crash), the loop continues: the wait-for-alive steps still
\* run and the process does not end.
C13_WriteFailureDoesNotStopTheLoop ==
    [][(mode = "main" /\ pc = "check_alive" /\ crashes' # crashes /\ ~crash_dir_exists)
         => pc' \in {"restart", "wait_alive", "restart_delay"}]_vars


(***************************************************************************)
(* Injection.fuzz called on its own (fuzzers/injection.py).                *)
(***************************************************************************)
\* the non-empty slot lists handed to Injection.fuzz: one slot, several
\* slots, empty slots, equal slots, slots holding CR and LF
SlotLists ==
    { << <<"/evt/a">> >>,
      << <<>> >>,
      << <<"/ctl">>, <<"192.168.1.1">>, <<"5000">> >>,
      << <<"A">>, <<"A">> >>,
      << <<"<m:">>, <<>>, <<"\">", LF>>, <<"Second-", "300", CR, LF>> >> }

NoCall == [fn |-> "none"]

IdleProcess ==
    /\ IdleESP /\ IdleNet /\ IdleSoap
    /\ total_requests = 0 /\ timeouts = 0 /\ errors = 0 /\ calls = 0
    /\ args = [proto |-> "none"] /\ exit_code = -1 /\ crash_dir_exists = FALSE
    /\ fuzz_sent = 0 /\ grammar = "none" /\ files = <<>> /\ saves = <<>> /\ clock = 1
    /\ target_up = TRUE

CallFrame == UNCHANGED <<mode, espVars, netVars, soapVars, args, exit_code,
                         crash_dir_exists, fuzz_sent, grammar, files, saves, clock,
                         target_up>>

InitInj ==
    /\ mode = "inj"
    /\ pc = "ready"
    /\ call = NoCall
    /\ IdleProcess

\* injection = self._get_injection(self.cmd); idx = random.randint(...);
\* return [*request[:idx], request[idx] + injection, *request[idx + 1:]]
Inj_Fuzz ==
    /\ mode = "inj" /\ pc = "ready"
    /\ \E req \in SlotLists, injection \in Injections :
         \E idx \in 1..Len(req) :
            call' = [fn |-> "Injection.fuzz", request |-> req, idx |-> idx,
                     injection |-> injection,
                     result |-> Injection_fuzz(req, idx, injection),
                     request_after |-> req]
    /\ pc' = "returned"
    /\ CallFrame

\* the result is dropped and the function may be called again
Inj_Again ==
    /\ mode = "inj" /\ pc = "returned"
    /\ call' = NoCall
    /\ pc' = "ready"
    /\ CallFrame

NextInj == Inj_Fuzz \/ Inj_Again

SpecInj == InitInj /\ [][NextInj]_vars

\* b is a prefix of c
IsPrefix(b, c) == Len(b) <= Len(c) /\ SubSeq(c, 1, Len(b)) = b

\* C14: for every non-empty slot list, Injection.fuzz returns a list with the
\* same number of slots in which exactly one slot differs from the input; that
\* slot is the input slot with the payload appended (longer by the payload
\* length, the input slot a prefix of it); every other slot is identical and
\* the input list is not modified.
C14_InjectionAppendsToOneSlot ==
    (mode = "inj" /\ pc = "returned") =>
      LET req == call.request
          res == call.result
          changed == { i \in 1..Len(req) : res[i] # req[i] }
      IN  /\ Len(res) = Len(req)
          /\ Cardinality(changed) = 1
          /\ \A i \in changed :
               /\ res[i] = req[i] \o call.injection
               /\ ByteLen(res[i]) = ByteLen(req[i]) + ByteLen(call.injection)
               /\ IsPrefix(req[i], res[i])
               /\ ByteLen(call.injection) > 0
          /\ \A i \in (1..Len(req)) \ changed : res[i] = req[i]
          /\ call.request_after = req

\* the payload $(reboot) followed by a line feed, appended to the second of
\* two equal slots
C14_Witness ==
    /\ mode = "inj" /\ pc = "returned"
    /\ call.request = << <<"A">>, <<"A">> >>
    /\ call.result = << <<"A">>, <<"A", "$(", "reboot", ")", LF>> >>


(***************************************************************************)
(* SOAPRequest._get_argument_value called on its own, for the arguments    *)
(* _process_service builds from the state variables a description may      *)
(* declare (generators/soap.py).                                           *)
(***************************************************************************)
DataTypes ==
    {"ui1", "ui2", "ui4", "i1", "i2", "i4", "boolean", "string", "number",
     "fixed.14.14", "float", "char", "date", "dateTime", "dateTime.tz", "time",
     "time.tz", "bin.base64", "bin.hex", "uri", "uuid", "int"}

IntegerTypes == {"ui1", "ui2", "ui4", "i1", "i2", "i4"}

\* the <stateVariable> elements of a description: the dataType, the text of
\* the defaultValue element (<<>> when there is none or it is empty) and the
\* texts of the allowedValue elements
Declarations ==
    [dataType : DataTypes,
     defaultValue : {<<>>, <<"7">>, <<"300">>, <<"AUTO">>},
     allowedValue : {<<>>, <<"7">>, <<"AUTO", "MANUAL">>, <<"-1", "300">>}]

\* _get_state_variables: (data_type, default_value, allowed_values)
get_state_variables(decl) ==
    [data_type |-> decl.dataType,
     default_value |-> IF decl.defaultValue = <<>> THEN "" ELSE decl.defaultValue[1],
     allowed_values |-> decl.allowedValue]

\* _process_service: the Argument built for an argument related to a variable
Arguments ==
    { LET sv == get_state_variables(decl)
      IN  Arg("NewValue", sv.data_type, sv.default_value, sv.allowed_values) :
        decl \in Declarations }

InitArg ==
    /\ mode = "arg"
    /\ pc = "ready"
    /\ call = NoCall
    /\ IdleProcess

\* _get_argument_value(argument)
Arg_GetValue ==
    /\ mode = "arg" /\ pc = "ready"
    /\ \E argument \in Arguments :
         \E value \in ArgumentValues(argument) :
            call' = [fn |-> "_get_argument_value", argument |-> argument,
                     result |-> get_argument_value(argument, value)]
    /\ pc' = "returned"
    /\ CallFrame

Arg_Again ==
    /\ mode = "arg" /\ pc = "returned"
    /\ call' = NoCall
    /\ pc' = "ready"
    /\ CallFrame

NextArg == Arg_GetValue \/ Arg_Again

SpecArg == InitArg /\ [][NextArg]_vars

(***************************************************************************)
(* Reading a synthesized value as a decimal integer.  Ranges are compared  *)
(* on the digits, so that 2^32 - 1 needs no machine integer.               *)
(***************************************************************************)
\* the bytes of the description texts that hold more than one character of
\* a number
Characters(str) ==
    CASE str = "300" -> <<"3", "0", "0">>
      [] str = "-1" -> <<"-", "1">>
      [] OTHER -> <<str>>

\* a value, one byte per chunk where it matters
Spell(b) == Join([i \in 1..Len(b) |-> Characters(b[i])])

IsDigits(b) == b # <<>> /\ \A i \in 1..Len(b) : DigitValue(b[i]) >= 0

IsInteger(b) ==
    \/ IsDigits(b)
    \/ Len(b) > 1 /\ b[1] = "-" /\ IsDigits(Tail(b))

RECURSIVE StripZeros(_)
StripZeros(b) == IF Len(b) > 1 /\ b[1] = "0" THEN StripZeros(Tail(b)) ELSE b

RECURSIVE LexLeq(_, _)
\* a <= b for digit sequences of the same length
LexLeq(a, b) ==
    IF a = <<>> THEN TRUE
    ELSE IF DigitValue(a[1]) # DigitValue(b[1]) THEN DigitValue(a[1]) < DigitValue(b[1])
    ELSE LexLeq(Tail(a), Tail(b))

\* a <= b for the numbers two digit sequences denote
MagnitudeLeq(a, b) ==
    LET x == StripZeros(a)
        y == StripZeros(b)
    IN  Len(x) < Len(y) \/ (Len(x) = Len(y) /\ LexLeq(x, y))

\* the declared range of an integer type: the magnitudes of its ends
TypeRange(t) ==
    CASE t = "ui1" -> [lo |-> <<"0">>, hi |-> <<"2", "5", "5">>]
      [] t = "ui2" -> [lo |-> <<"0">>, hi |-> <<"6", "5", "5", "3", "5">>]
      [] t = "ui4" -> [lo |-> <<"0">>,
                       hi |-> <<"4", "2", "9", "4", "9", "6", "7", "2", "9", "5">>]
      [] t = "i1" -> [lo |-> <<"1", "2", "8">>, hi |-> <<"1", "2", "7">>]
      [] t = "i2" -> [lo |-> <<"3", "2", "7", "6", "8">>, hi |-> <<"3", "2", "7", "6", "7">>]
      [] t = "i4" -> [lo |-> <<"2", "1", "4", "7", "4", "8", "3", "6", "4", "8">>,
                      hi |-> <<"2", "1", "4", "7", "4", "8", "3", "6", "4", "7">>]

\* the value parses as an integer within the declared range of type t
InTypeRange(b, t) ==
    LET v == Spell(b)
    IN  /\ IsInteger(v)
        /\ IF v[1] = "-"
           THEN MagnitudeLeq(Tail(v), TypeRange(t).lo)
           ELSE MagnitudeLeq(v, TypeRange(t).hi)

\* the value slot of the five slots _get_argument_value returns
SynthesizedValue == call.result[4]

\* C15 (as stated): for every argument of an integer type, whatever default
\* value and allowed values the description declares for it, the synthesized
\* value parses as an integer within the declared range of the type.
C15_IntegerValuesInRange ==
    (mode = "arg" /\ pc = "returned" /\ call.argument.data_type \in IntegerTypes)
      => InTypeRange(SynthesizedValue, call.argument.data_type)

\* C15 (amended): for every argument of an integer type for which the
\* description declares neither allowed values nor a default value, the
\* synthesized value parses as an integer within the declared range.
C15_GeneratedIntegerValuesInRange ==
    (/\ mode = "arg" /\ pc = "returned"
     /\ call.argument.data_type \in IntegerTypes
     /\ call.argument.allowed_values = <<>>
     /\ call.argument.default_value = "")
      => InTypeRange(SynthesizedValue, call.argument.data_type)

\* the lower end of i4 generated for an argument without declared values
C15_Witness ==
    /\ mode = "arg" /\ pc = "returned"
    /\ call.argument.data_type = "i4"
    /\ call.argument.allowed_values = <<>> /\ call.argument.default_value = ""
    /\ SynthesizedValue = <<"-", "2", "1", "4", "7", "4", "8", "3", "6", "4", "8">>
    /\ InTypeRange(SynthesizedValue, "i4")

\* C16: for every argument with a non-empty allowed_values list, the value
\* synthesized for it is a member of allowed_values, whatever its default
\* value and data type are.
C16_AllowedValuesTakePrecedence ==
    (mode = "arg" /\ pc = "returned" /\ call.argument.allowed_values # <<>>)
      => \E i \in 1..Len(call.argument.allowed_values) :
            SynthesizedValue = <<call.argument.allowed_values[i]>>

\* MANUAL picked for a ui1 argument whose default value is 7
C16_Witness ==
    /\ mode = "arg" /\ pc = "returned"
    /\ call.argument.data_type = "ui1"
    /\ call.argument.default_value = "7"
    /\ call.argument.allowed_values = <<"AUTO", "MANUAL">>
    /\ SynthesizedValue = <<"MANUAL">>


(***************************************************************************)
(* Requests for actions of direction OUT.                                  *)
(***************************************************************************)
\* the wire bytes end with the blank line that ends the headers
HeadersOnly(w) ==
    /\ HeaderEnds(w) # {}
    /\ Min(HeaderEnds(w)) + 3 = Len(w)
    /\ WireBody(w) = <<>>

\* C17 (as stated): for every action with direction OUT, the finalized wire
\* bytes consist of headers only and carry Content-Length: 0.
C17_OutActionsHaveNoBody ==
    (mode = "soap" /\ current_strategy # "none" /\ action.action_type = "OUT")
      => HeadersOnly(request) /\ WireContentLength(request) = 0

\* C17 (amended): for every action with direction OUT no strategy hands a body
\* to its mutator, and the wire bytes of the raw strategy (and of radamsa when
\* the tool is disabled) consist of headers only and carry Content-Length: 0.
C17_OutActionsHaveNoBodyUnlessHeadersMutated ==
    (mode = "soap" /\ current_strategy # "none" /\ action.action_type = "OUT")
      => /\ branch # "body"
         /\ (current_strategy = "raw" \/ (current_strategy = "radamsa" /\ binary = ""))
              => HeadersOnly(request) /\ WireContentLength(request) = 0

\* the raw request for GetStatus
C17_Witness ==
    /\ mode = "soap" /\ current_strategy = "raw"
    /\ action.action_type = "OUT" /\ action.action_name = "GetStatus"
    /\ Contains(request, <<"Content-Length: ", "0", CR, LF>>)
    /\ SubSeq(request, Len(request) - 3, Len(request)) = <<CR, LF, CR, LF>>


(***************************************************************************)
(* SSDP.discover (protocols/ssdp.py) over Network.send_udp_wait.           *)
(***************************************************************************)
\* re.search(name + b"(.*?)\r\n", b): <<group 1>> of the leftmost match, <<>>
\* when there is none
re_search_header(name, b) ==
    LET starts == { i \in 1..Len(b) : b[i] = name /\ GroupEnds(b, i) # {} }
    IN  IF starts = {} THEN <<>>
        ELSE LET i == Min(starts)
                 j == Min(GroupEnds(b, i))
             IN  << SubSeq(b, i + 1, j - 1) >>

\* location = "" / server = "" unless the header is found
HeaderOrEmpty(name, data) ==
    LET result == re_search_header(name, data)
    IN  IF result # <<>> THEN result[1] ELSE <<>>

Service(ip, port, location, server) ==
    [ip |-> ip, port |-> port, location |-> location, server |-> server]

\* the loop body of discover with services compared as a whole
discover_response_by_service(services, data, ip, port) ==
    LET service == Service(ip, port, HeaderOrEmpty("LOCATION: ", data),
                           HeaderOrEmpty("SERVER: ", data))
    IN  IF \A i \in 1..Len(services) : services[i] # service
        THEN Append(services, service)
        ELSE services

\* the loop body of discover for one response: the services list afterwards
discover_response(services, data, ip, port) ==
    LET location == HeaderOrEmpty("LOCATION: ", data)
        server == HeaderOrEmpty("SERVER: ", data)
    IN  IF \A i \in 1..Len(services) : services[i].location # location
        THEN Append(services, Service(ip, port, location, server))
        ELSE services

\* the header lines of the datagrams that answer the multicast request
DiscoveryHeaders ==
    { <<>>,
      << <<"LOCATION: ", "http://10.0.0.1/d.xml">> >>,
      << <<"LOCATION: ", "http://10.0.0.1/d.xml">>, <<"SERVER: ", "Linux UPnP/1.0">> >>,
      << <<"SERVER: ", "miniupnpd/2.0">>, <<"LOCATION: ", "http://10.0.0.1/d.xml">> >>,
      << <<"LOCATION: ", "http://10.0.0.2/d.xml">>, <<"SERVER: ", "Linux UPnP/1.0">> >>,
      << <<"LOCATION: ", "http://10.0.0.2/d.xml">>,
         <<"LOCATION: ", "http://10.0.0.1/d.xml">> >>,
      << <<"SERVER: ", "miniupnpd/2.0">> >> }

Datagram(hs) ==
    <<"HTTP/1.1 200 OK">> \o CRLF
      \o Join([i \in 1..Len(hs) |-> hs[i] \o CRLF])
      \o CRLF

Datagrams == { Datagram(hs) : hs \in DiscoveryHeaders }

Senders == {"10.0.0.1", "10.0.0.2"}

InitDisc ==
    /\ mode = "disc"
    /\ pc = "start"
    /\ call = NoCall
    /\ IdleProcess

\* discover() up to the first recvfrom: the multicast request is sent;
\* socket(), setsockopt() and sendto() are not guarded
Disc_Send ==
    /\ mode = "disc" /\ pc = "start"
    /\ \E ok \in BOOLEAN :
         IF ok
         THEN /\ pc' = "receiving"
              /\ call' = [fn |-> "discover", services |-> <<>>, received |-> <<>>]
         ELSE /\ pc' = "raised"
              /\ call' = [fn |-> "discover", services |-> <<>>, received |-> <<>>]
    /\ CallFrame

\* recvfrom returns a datagram and the loop body of discover runs on it
Disc_Response ==
    /\ mode = "disc" /\ pc = "receiving"
    /\ Len(call.received) < MaxResponses
    /\ \E data \in Datagrams, ip \in Senders :
         call' = [call EXCEPT
                    !.services = discover_response(call.services, data, ip, 1900),
                    !.received = Append(call.received,
                                        [data |-> data, ip |-> ip, port |-> 1900])]
    /\ UNCHANGED pc
    /\ CallFrame

\* recvfrom raises: socket.timeout ends the generator and discover returns,
\* any other socket error is not caught
Disc_End ==
    /\ mode = "disc" /\ pc = "receiving"
    /\ \E exc \in {"timeout", "error"} :
         pc' = IF exc = "timeout" THEN "returned" ELSE "raised"
    /\ UNCHANGED call
    /\ CallFrame

NextDisc == Disc_Send \/ Disc_Response \/ Disc_End

SpecDisc == InitDisc /\ [][NextDisc]_vars

\* the LOCATION value of the k-th response received
LocationOf(k) == HeaderOrEmpty("LOCATION: ", call.received[k].data)

\* the first response that carried the LOCATION value of the k-th one
FirstWith(k) == Min({ m \in 1..k : LocationOf(m) = LocationOf(k) })

\* C18: discovery reports at most one service entry per distinct LOCATION
\* value: the entries have pairwise distinct LOCATION values, every LOCATION
\* received has its entry, and the entry kept is the one of the first
\* response that carried it.
C18_OneEntryPerLocation ==
    (mode = "disc" /\ call.fn = "discover") =>
      LET services == call.services
          received == call.received
      IN  /\ \A i, j \in 1..Len(services) :
               i # j => services[i].location # services[j].location
          /\ \A k \in 1..Len(received) :
               \E i \in 1..Len(services) :
                  /\ services[i].location = LocationOf(k)
                  /\ services[i].ip = received[FirstWith(k)].ip
                  /\ services[i].server =
                       HeaderOrEmpty("SERVER: ", received[FirstWith(k)].data)
          /\ \A i \in 1..Len(services) :
               \E k \in 1..Len(received) : services[i].location = LocationOf(k)

\* two responses with the same LOCATION and different SERVER headers: one
\* entry, with the SERVER of the first
C18_Witness ==
    /\ mode = "disc" /\ pc = "returned"
    /\ Len(call.received) = 2
    /\ LocationOf(1) = <<"http://10.0.0.1/d.xml">>
    /\ LocationOf(2) = <<"http://10.0.0.1/d.xml">>
    /\ HeaderOrEmpty("SERVER: ", call.received[1].data) = <<"Linux UPnP/1.0">>
    /\ HeaderOrEmpty("SERVER: ", call.received[2].data) = <<"miniupnpd/2.0">>
    /\ Len(call.services) = 1
    /\ call.services[1].server = <<"Linux UPnP/1.0">>


(***************************************************************************)
(* The fuzz loops of eventing and SOAP side by side.                       *)
(***************************************************************************)
InitLoops == InitESP \/ InitSOAP

NextLoops == NextESP \/ NextSOAP

SpecLoops == InitLoops /\ [][NextLoops]_vars

\* C19: after grammar bootstrap has returned, no step of the fuzz loop
\* (request synthesis, any strategy function, SID tracking, crash handling)
\* changes the action catalog or the event endpoint set.
C19_CatalogAndEndpointsAreFrozen ==
    [][/\ mode = "esp" => events' = events
       /\ mode = "soap" => actions' = actions]_vars

\* an eventing session after a crash was handled and a SID stored, with the
\* endpoint list it started with
C19_Witness ==
    /\ mode = "esp" /\ pc = "fuzz"
    /\ total_requests >= 2
    /\ crashes >= 1
    /\ DOMAIN sids # {}
    /\ events = EventLists1

(***************************************************************************)
(* SSDP requests (generators/ssdp.py) and the radamsa strategy of the      *)
(* three protocols on one Radamsa wrapper, from its construction on.       *)
(***************************************************************************)
\* get_user_agent: the user agents random.choice draws from
UserAgents ==
    { <<"Windows/10.0 UPnP/1.1 MyClient/1.0">>,
      <<"Linux/5.4 UPnP/1.1 VLC/3.0">>,
      <<"Android/11 UPnP/1.1 BubbleUPnP/3.5.4">>,
      <<"MacOS/12.3 UPnP/1.1 UPnP-Inspector/0.2">>,
      <<"IoTDevice/1.0 UPnP/1.1 GenericDevice/2.0">>,
      <<"Xbox/10.0 UPnP/1.1 XboxUPnP/1.0">>,
      <<"PrinterOS/2.1 UPnP/1.1 PrinterService/1.5">>,
      <<"CustomScript/1.0 UPnP/1.1 TestTool/1.2">>,
      <<"RouterOS/6.49 UPnP/1.1 MiniUPnPd/2.2.1">>,
      <<"SmartTV/1.0 UPnP/1.1 DLNADOC/1.50">> }

\* SSDPGenerator.get_request: a search or a notify request object
SSDP_get_request == { [kind |-> "SearchRequest"], [kind |-> "NotifyRequest"] }

\* req.get_headers_params(): the slot lists the random draws may give
SSDP_get_headers_params(r) ==
    IF r.kind = "SearchRequest"
    THEN { <<Host, Port, <<"ssdp.discover">>, StrInt(mx), st, user_agent>> :
             mx \in 1..5, st \in { <<"ssdp:all">>, <<"upnp:rootdevice">> },
             user_agent \in UserAgents }
    ELSE { <<Host, Port, <<"upnp:rootdevice">>, <<"ssdp:alive">>,
             <<"uuid:device-UUID::upnp:rootdevice">>,
             <<"http://192.168.1.2:80/device.xml">>, <<"max-age=1800">>,
             user_agent, <<"1">>, <<"1337">>>> :
             user_agent \in UserAgents }

\* req.finalize_headers(headers_params)
SSDP_finalize_headers(r, hp) ==
    IF r.kind = "SearchRequest"
    THEN <<"M-SEARCH * HTTP/1.1">> \o CRLF \o
         <<"HOST: ">> \o hp[1] \o <<":">> \o hp[2] \o CRLF \o
         <<"MAN: ", "\"">> \o hp[3] \o <<"\"">> \o CRLF \o
         <<"MX: ">> \o hp[4] \o CRLF \o
         <<"ST: ">> \o hp[5] \o CRLF \o
         <<"USER-AGENT: ">> \o hp[6] \o CRLF \o
         CRLF
    ELSE <<"NOTIFY * HTTP/1.1">> \o CRLF \o
         <<"HOST: ">> \o hp[1] \o <<":">> \o hp[2] \o CRLF \o
         <<"NT: ">> \o hp[3] \o CRLF \o
         <<"NTS: ">> \o hp[4] \o CRLF \o
         <<"USN: ">> \o hp[5] \o CRLF \o
         <<"LOCATION: ">> \o hp[6] \o CRLF \o
         <<"CACHE-CONTROL: ">> \o hp[7] \o CRLF \o
         <<"SERVER: ">> \o hp[8] \o CRLF \o
         <<"BOOTID.UPNP.ORG: ">> \o hp[9] \o CRLF \o
         <<"CONFIGID.UPNP.ORG: ">> \o hp[10] \o CRLF \o
         CRLF

\* SSDP.fuzz_radamsa for a request object and the slots drawn for it
SSDP_fuzz_radamsa(bin, r, headers_params) ==
    LET request_headers == SSDP_finalize_headers(r, headers_params)
    IN  { <<"radamsa", Radamsa_fuzz(bin, request_headers, out)>> :
            out \in RadamsaOutputs(request_headers) }

\* --radamsa-path left out, or naming a binary
RadamsaPaths == {"", "/opt/radamsa/bin/radamsa"}

\* eventing request objects the generator may hand to a strategy
FuzzRequests ==
    { [kind |-> "NewSubscribe", event |-> <<EventUrls[1]>>, sid |-> <<>>],
      [kind |-> "RenewalSubscribe", event |-> <<EventUrls[1]>>, sid |-> <<"uuid:1">>],
      [kind |-> "Unsubscribe", event |-> <<EventUrls[2]>>, sid |-> PlaceholderSid] }

InitRad ==
    /\ mode = "rad"
    /\ pc = "new"
    /\ call = NoCall
    /\ IdleProcess

\* BaseProtocol.__init__: self.radamsa = Radamsa(radamsa_path)
Rad_Construct ==
    /\ mode = "rad" /\ pc = "new"
    /\ \E radamsa_path \in RadamsaPaths, found \in BOOLEAN :
         call' = [fn |-> "Radamsa", radamsa_path |-> radamsa_path, found |-> found,
                  binary |-> Radamsa_init(radamsa_path, found),
                  children |-> 0, n |-> 0, proto |-> "none", req |-> NoCall,
                  headers_params |-> <<>>, result |-> <<"none", <<>>>>]
    /\ pc' = "ready"
    /\ CallFrame

\* SSDP.fuzz_radamsa: the wrapper's binary is read, never written
Rad_SsdpFuzz ==
    /\ mode = "rad" /\ pc = "ready"
    /\ call.n < MaxCalls
    /\ \E r \in SSDP_get_request :
         \E hp \in SSDP_get_headers_params(r) :
            \E res \in SSDP_fuzz_radamsa(call.binary, r, hp) :
               call' = [call EXCEPT !.n = @ + 1,
                                    !.children = @ + Radamsa_spawns(call.binary),
                                    !.proto = "ssdp", !.req = r,
                                    !.headers_params = hp, !.result = res]
    /\ pc' = "returned"
    /\ CallFrame

\* SOAP.fuzz_radamsa on an action of the catalog
Rad_SoapFuzz ==
    /\ mode = "rad" /\ pc = "ready"
    /\ call.n < MaxCalls
    /\ \E i \in 1..Len(Catalog) :
         \E res \in SOAP_fuzz_radamsa(call.binary, Catalog[i]) :
            call' = [call EXCEPT !.n = @ + 1,
                                 !.children = @ + Radamsa_spawns(call.binary),
                                 !.proto = "soap", !.req = Catalog[i],
                                 !.headers_params = <<>>,
                                 !.result = <<res.tag, res.request>>]
    /\ pc' = "returned"
    /\ CallFrame

\* ESP.fuzz_radamsa on a request object
Rad_EspFuzz ==
    /\ mode = "rad" /\ pc = "ready"
    /\ call.n < MaxCalls
    /\ \E r \in FuzzRequests :
         \E res \in ESP_fuzz_radamsa(call.binary, r) :
            call' = [call EXCEPT !.n = @ + 1,
                                 !.children = @ + Radamsa_spawns(call.binary),
                                 !.proto = "esp", !.req = r,
                                 !.headers_params = <<>>, !.result = res]
    /\ pc' = "returned"
    /\ CallFrame

\* the request is sent and the loop comes back for the next one
Rad_Again ==
    /\ mode = "rad" /\ pc = "returned"
    /\ call' = [call EXCEPT !.proto = "none", !.req = NoCall,
                            !.headers_params = <<>>, !.result = <<"none", <<>>>>]
    /\ pc' = "ready"
    /\ CallFrame

NextRad == Rad_Construct \/ Rad_SsdpFuzz \/ Rad_SoapFuzz \/ Rad_EspFuzz \/ Rad_Again

SpecRad == InitRad /\ [][NextRad]_vars

\* C20: when the radamsa binary was not found at construction the wrapper's
\* binary is empty for the whole session, no call starts a child process, and
\* the radamsa strategy of SSDP, SOAP and eventing returns the RADAMSA tag
\* with exactly the bytes that finalizing the unmutated slots produces.
C20_MissingRadamsaIsIdentity ==
    (mode = "rad" /\ pc # "new" /\ ~call.found) =>
      /\ call.binary = ""
      /\ call.children = 0
      /\ pc = "returned" =>
           /\ call.result[1] = "radamsa"
           /\ call.proto = "ssdp" =>
                call.result[2] = SSDP_finalize_headers(call.req, call.headers_params)
           /\ call.proto = "esp" =>
                call.result[2] = finalize_headers(call.req, get_headers_params(call.req))
           /\ call.proto = "soap" =>
                call.result[2] \in { x.request : x \in SOAP_fuzz_raw(call.req) }

\* the binary named by --radamsa-path is missing and the second request of
\* the session, an M-SEARCH, came back from the strategy as it was finalized
C20_Witness ==
    /\ mode = "rad" /\ pc = "returned"
    /\ call.radamsa_path # "" /\ ~call.found
    /\ call.n = 2 /\ call.children = 0
    /\ call.proto = "ssdp" /\ call.req.kind = "SearchRequest"
    /\ call.result = <<"radamsa", SSDP_finalize_headers(call.req, call.headers_params)>>

(***************************************************************************)
(* The strategy tag of an iteration (protocols/base.py).                   *)
(***************************************************************************)
\* C21: in every iteration the tag the strategy function returns is raw in
\* raw mode, the selected strategy itself when radamsa, injection or overflow
\* is selected, and one of radamsa, injection, overflow (never raw, never
\* all) when ALL is selected, while the selected strategy stays ALL.
C21_StrategyTagFollowsSelection ==
    [][(mode = "main" /\ pc = "loop" /\ pc' = "check_alive") =>
         /\ args' = args
         /\ args.command = "raw" =>
              SelectedStrategy(args.command) = "raw" /\ current_strategy' = "raw"
         /\ args.command \in {"radamsa", "injection", "overflow"} =>
              current_strategy' = args.command
         /\ args.command = "fuzz" =>
              /\ SelectedStrategy(args'.command) = "all"
              /\ current_strategy' \in {"radamsa", "injection", "overflow"}]_vars

\* --fuzz: two crashes of one session were saved under different concrete
\* strategies, and a third iteration has drawn its own
C21_Witness ==
    /\ mode = "main" /\ pc = "check_alive"
    /\ args.command = "fuzz"
    /\ Len(saves) = 2
    /\ saves[1].name[3] = "radamsa" /\ saves[2].name[3] = "overflow"
    /\ current_strategy = "injection"

(***************************************************************************)
(* Which part of a SOAP request a mutating strategy touches                *)
(* (protocols/soap.py).                                                    *)
(***************************************************************************)
\* b is a suffix of c
IsSuffix(b, c) == Len(b) <= Len(c) /\ SubSeq(c, Len(c) - Len(b) + 1, Len(c)) = b

\* the headers finalized from unmutated slots for a body
UnmutatedHeaders(act, body) ==
    SOAP_finalize_headers(SOAP_get_headers_params(act, ByteLen(body)))

\* the bodies finalized from unmutated slots for an action
UnmutatedBodies(act) ==
    { finalize_body(get_body_params(act, vs)) : vs \in ValuePicks(act.arguments) }

\* the wire bytes are unmutated headers followed by a body they count; for
\* injection and overflow that body is none of the unmutated ones
BodyAloneMutated(act, strategy, w) ==
    \E k \in 0..Len(w) :
       LET body == SubSeq(w, k + 1, Len(w))
       IN  /\ SubSeq(w, 1, k) = UnmutatedHeaders(act, body)
           /\ strategy \in {"injection", "overflow"} => body \notin UnmutatedBodies(act)

\* the wire bytes end with an unmutated body; for injection and overflow what
\* stands in front of it is not the unmutated headers for that body
HeadersAloneMutated(act, strategy, w) ==
    \E body \in UnmutatedBodies(act) :
       /\ IsSuffix(body, w)
       /\ strategy \in {"injection", "overflow"} =>
            SubSeq(w, 1, Len(w) - Len(body)) # UnmutatedHeaders(act, body)

\* C22: in the SOAP radamsa, injection and overflow strategies one part of
\* the request is handed to the mutator, never both: the body only when the
\* action has body slots, and then the headers are the unmutated ones built
\* for the length of the mutated body; otherwise the body is an unmutated one
\* and only the headers are mutated.
C22_OnePartIsMutated ==
    (mode = "soap" /\ pc = "built"
       /\ current_strategy \in {"radamsa", "injection", "overflow"}) =>
      /\ branch \in {"body", "headers"}
      /\ branch = "body" =>
           /\ \A vs \in ValuePicks(action.arguments) : get_body_params(action, vs) # <<>>
           /\ BodyAloneMutated(action, current_strategy, request)
      /\ branch = "headers" => HeadersAloneMutated(action, current_strategy, request)
      /\ (\A vs \in ValuePicks(action.arguments) : get_body_params(action, vs) = <<>>)
           => branch = "headers"

\* overflow replaced a body slot of SetLoadLevelTarget with a pattern of A:
\* the headers are unmutated and count the body that carries the pattern
C22_Witness ==
    /\ mode = "soap" /\ pc = "built"
    /\ current_strategy = "overflow" /\ branch = "body"
    /\ action.action_name = "SetLoadLevelTarget"
    /\ \E i \in 1..Len(request) : request[i] = Pattern(Min(OverflowLengths))
    /\ BodyAloneMutated(action, "overflow", request)
    /\ ContentLengthMatchesBody(request)
    /\ ~HeadersAloneMutated(action, "overflow", request)

(***************************************************************************)
(* RenewalSubscribe synthesis (generators/esp.py).                         *)
(***************************************************************************)
\* C23: a RenewalSubscribe synthesis uses a SID of the subscription table
\* together with the event URL stored for it whenever the table is non-empty,
\* and the placeholder SID with one of the event URLs only when the table is
\* empty; in both cases the table is left unchanged.
C23_RenewalUsesTheTable ==
    [][(mode = "esp" /\ pc = "fuzz" /\ pc' = "send" /\ rq'.kind = "RenewalSubscribe") =>
         /\ sids' = sids
         /\ DOMAIN sids # {} =>
              rq'.sid \in DOMAIN sids /\ rq'.event = sids[rq'.sid]
         /\ DOMAIN sids = {} =>
              /\ rq'.sid = PlaceholderSid
              /\ \E i \in 1..Len(events) : rq'.event = events[i]]_vars

(***************************************************************************)
(* The monitor in the loop of run() (monitor.py, protocols/base.py).       *)
(***************************************************************************)
\* handle_crash() after save_crash
CrashHandling == {"restart", "wait_alive", "restart_delay"}

\* a step of run() or handle_crash() itself, not the operator's SIGINT
LoopStep == mode = "main" /\ pc' # pc /\ pc' # "interrupted"

\* C24: after the liveness probe that follows a send has failed, no further
\* fuzz request is sent until a later probe has returned true; while waiting,
\* a failed probe is followed by the sleep of restart_delay and the sleep by
\* the next probe, and the first successful probe leaves the wait for the
\* loop.
C24_MonitorGatesProgress ==
    [][mode = "main" =>
         /\ pc \in CrashHandling => fuzz_sent' = fuzz_sent /\ request' = request
         /\ fuzz_sent' # fuzz_sent =>
              /\ pc = "loop"
              /\ call.fn = "none" \/ (call.fn = "check_alive" /\ call.alive)
         /\ (LoopStep /\ pc = "check_alive" /\ ~call'.alive) =>
              pc' \in {"restart", "exited"}
         /\ (LoopStep /\ pc = "wait_alive") =>
              /\ call'.fn = "check_alive"
              /\ call'.alive => pc' = "loop"
              /\ ~call'.alive => pc' = "restart_delay"
         /\ (LoopStep /\ pc = "restart_delay") => pc' = "wait_alive" /\ call' = call
         /\ (LoopStep /\ pc \in CrashHandling /\ pc' = "loop") =>
              pc = "wait_alive" /\ call'.alive]_vars

\* the second request of a session went out after a crash, a restart command
\* and a probe that found the target alive, and its own probe has failed
C24_Witness ==
    /\ mode = "main" /\ pc = "restart_delay"
    /\ fuzz_sent = 2 /\ crashes = 2
    /\ call.fn = "check_alive" /\ ~call.alive
    /\ call.restarts = 2

\* C25: the crash counter never decreases; it is incremented by one in
\* exactly the iterations whose probe after the send failed, so at the start
\* of an iteration it is the number of crash files saved so far and at most
\* the number of requests sent; the probes, the restart command and the
\* sleeps of the wait for the restart change neither the counter nor the
\* files; without an alive URL every probe is true, the counter stays 0 and
\* crash handling never runs.
C25_CrashCounter ==
    [][mode = "main" =>
         /\ crashes' >= crashes
         /\ crashes' # crashes =>
              pc = "check_alive" /\ crashes' = crashes + 1 /\ ~call'.alive
         /\ (LoopStep /\ pc = "check_alive") =>
              (crashes' = crashes + 1 <=> ~call'.alive)
         /\ pc \in CrashHandling =>
              crashes' = crashes /\ files' = files /\ saves' = saves
         /\ pc = "loop" => crashes = Len(saves) /\ crashes <= fuzz_sent
         /\ args.alive_url = "" =>
              /\ crashes = 0 /\ saves = <<>> /\ call.alive
              /\ pc \notin CrashHandling]_vars

\* the third iteration starts after two crashes, each of which was waited
\* out through at least one probe
C25_Witness ==
    /\ mode = "main" /\ pc = "loop"
    /\ fuzz_sent = 2 /\ crashes = 2 /\ Len(saves) = 2
    /\ call.fn = "check_alive" /\ call.alive

\* C26: in crash handling the restart command is run once per crash whose
\* file was saved, after the save and before the first probe of the wait,
\* only when a restart command is configured; the step ends when the child
\* has ended, and whatever its exit status the wait for liveness follows.
C26_RestartCommandRunsOnce ==
    [][mode = "main" =>
         /\ call'.restarts # call.restarts =>
              /\ pc = "restart" /\ pc' = "wait_alive"
              /\ args.restart_cmd # ""
              /\ call'.restarts = call.restarts + 1
              /\ Len(saves) = crashes /\ saves[crashes].name \in DOMAIN files
         /\ (LoopStep /\ pc = "restart" /\ args.restart_cmd = "") =>
              pc' = "wait_alive" /\ call' = call
         /\ (LoopStep /\ pc = "restart" /\ args.restart_cmd # "") =>
              /\ call'.fn = "run_command"
              /\ call'.returncode \in {"0", "1"} =>
                   pc' = "wait_alive" /\ call'.restarts = call.restarts + 1
         /\ pc = "restart" => call.fn = "check_alive" /\ ~call.alive
         /\ pc \in {"loop", "check_alive", "wait_alive", "restart_delay"} =>
              call.restarts = IF args.restart_cmd # "" THEN crashes ELSE 0
         /\ pc = "restart" =>
              call.restarts = IF args.restart_cmd # "" THEN crashes - 1 ELSE 0]_vars

\* the restart command of the first crash ended with a non-zero status and
\* the first probe of the wait is about to be made
C26_Witness ==
    /\ mode = "main" /\ pc = "wait_alive"
    /\ args.restart_cmd = RestartCmd
    /\ crashes = 1 /\ Len(saves) = 1
    /\ call.fn = "run_command" /\ call.returncode = "1" /\ call.restarts = 1

(***************************************************************************)
(* SOAP mode started from the command line (main.py, generators/soap.py).  *)
(***************************************************************************)
\* C27: in SOAP mode, against a device whose description and SCPD documents
\* can be fetched and parsed and declare an action, grammar bootstrap succeeds
\* and the selected command (list, raw or fuzz) runs: the session does not
\* end with an error before the command.  (What the device serves plays no
\* part in the step of main that calls generate_grammar: the call fails
\* before anything is fetched.)
C27_SoapBootstrapSucceeds ==
    (/\ mode = "main" /\ args.proto = "soap"
     /\ args.command \in {"list", "raw", "fuzz"}
     /\ pc \notin {"start", "interrupted"})
      => /\ grammar = "ok"
         /\ exit_code # 1
         /\ args.command \in LoopCommands => pc # "exited"

(***************************************************************************)
(* The event URLs of the subscription table (generators/esp.py).           *)
(***************************************************************************)
\* C28: in every state of the eventing loop every event URL stored as a
\* value of the subscription table is one of the event endpoints extracted at
\* bootstrap, so a RenewalSubscribe or Unsubscribe built from a table entry
\* targets an advertised event URL, never an empty path.
C28_TableHoldsAdvertisedEventUrls ==
    mode = "esp" =>
      /\ \A s \in DOMAIN sids :
           /\ sids[s] # <<>>
           /\ \E i \in 1..Len(events) : sids[s] = events[i]
      /\ (rq.kind \in {"RenewalSubscribe", "Unsubscribe"} /\ Truthy(drawn)) =>
           /\ rq.event # <<>>
           /\ \E i \in 1..Len(events) : rq.event = events[i]

(***************************************************************************)
(* Progress of the loop after a crash (monitor.py, protocols/base.py): an  *)
(* SSDP session with an alive URL, whose task always takes its next step.  *)
(***************************************************************************)
InitMainLive ==
    /\ InitMain
    /\ args.proto = "ssdp" /\ args.command = "fuzz" /\ args.alive_url = AliveUrl

\* the steps of the program itself
MainTask ==
    \/ Main_Ssdp
    \/ Main_Fuzz
    \/ Main_CheckAlive
    \/ Main_Restart
    \/ Main_WaitAlive
    \/ Main_RestartDelay

NextMainLive == MainTask \/ Main_Interrupt \/ Main_CrashDirRemoved

\* one sequential task: whenever it can take a step it eventually does
SpecMainLive == InitMainLive /\ [][NextMainLive]_vars /\ WF_vars(MainTask)

\* the process was ended by the operator or by an uncaught exception
Ended == pc \in {"exited", "interrupted"}

\* C29: in a session that is not ended from outside, if the target eventually
\* answers the liveness probe and keeps answering, every crash handling ends
\* and the loop sends another request; if from some point of a crash handling
\* on the target never answers, no further request is sent and the loop does
\* not leave crash handling.
C29_WaitEndsWhenTheTargetReturns ==
    /\ (<>[]target_up /\ []~Ended) =>
         \A n \in 1..(MaxRequests - 1) :
            (pc \in CrashHandling /\ fuzz_sent = n) ~> (fuzz_sent = n + 1)
    /\ \A n \in 1..MaxRequests :
         []((pc \in CrashHandling /\ fuzz_sent = n /\ []~target_up)
              => [](fuzz_sent = n /\ (pc \in CrashHandling \/ Ended)))

\* the target came back after the first crash, a probe of the wait found it
\* alive, and the second request has been sent
C29_Witness ==
    /\ mode = "main" /\ pc = "check_alive"
    /\ args.proto = "ssdp" /\ args.command = "fuzz" /\ args.alive_url = AliveUrl
    /\ fuzz_sent = 2 /\ crashes = 1
    /\ call.fn = "check_alive" /\ call.alive /\ target_up

(***************************************************************************)
(* The counters of the transport, in calls of send on their own and in the *)
(* eventing loop (network.py, protocols/esp.py).                           *)
(***************************************************************************)
InitTransport == InitNet \/ InitESP

NextTransport == NextNet \/ NextESP

SpecTransport == InitTransport /\ [][NextTransport]_vars

\* a step that is a call of Network.send, over TCP or UDP
SendStep ==
    /\ calls' = calls + 1
    /\ \/ mode = "net" /\ pc = "idle" /\ net'.fn \in {"send_tcp", "send_udp"}
       \/ mode = "esp" /\ pc = "send"

\* a step that leaves the three counters as they were
CountersKept ==
    total_requests' = total_requests /\ timeouts' = timeouts /\ errors' = errors

\* what a step may do to the counters: a send adds one to total_requests and
\* to at most one of timeouts and errors, any other step keeps all three
CounterStep ==
    /\ timeouts + errors <= total_requests
    /\ timeouts' + errors' <= total_requests'
    /\ total_requests' >= total_requests
    /\ timeouts' >= timeouts
    /\ errors' >= errors
    /\ (timeouts' - timeouts) + (errors' - errors) <= 1
    /\ SendStep => total_requests' = total_requests + 1
    /\ ~SendStep => CountersKept

\* C30: after any sequence of TCP and UDP sends the three counters never
\* decrease, a send adds one to total_requests and to at most one of timeouts
\* and errors, timeouts + errors <= total_requests in every state, and no
\* step other than a send (strategy function, SID tracking, liveness probe,
\* crash handling, sleep, the multicast collect) changes a counter.
C30_CountersOfTheTransport == [][(mode \in {"net", "esp"}) => CounterStep]_vars

\* the eventing loop after two sends, one timed out and one refused, and a
\* crash that was handled in between
C30_Witness ==
    /\ mode = "esp" /\ pc = "sleep"
    /\ total_requests = 2 /\ timeouts = 1 /\ errors = 1
    /\ crashes = 1

====
